---- MODULE Spec2Model ----
(***************************************************************************)
(* A model of seehuhn.de/go/icc: the profile container codec (Decode,      *)
(* Profile.Encode), the curve evaluator (Curve.Evaluate, Curve.Invert) and *)
(* codec (DecodeCurve, Curve.Encode), the LUT evaluator (Lut.Apply), the   *)
(* mAB/mBA codec with its CLUT size guard, the colour Transform, and two   *)
(* concurrent Invert calls on one Curve.  Further parts: transforms of one *)
(* profile used in turn (SpecShare), buildInverseTable entry by entry      *)
(* (SpecBuild), the Lab bridge of ToXYZ and FromXYZ (SpecBridge), the date *)
(* codec on times of any location (SpecDate), the two interpolators on     *)
(* their own (SpecInterp) and Invert calls between assignments to Table    *)
(* (SpecCache).  Each part is a state machine of its own over its own      *)
(* variables; the other variables stay idle.                               *)
(*                                                                         *)
(* Conventions.                                                            *)
(*  - A byte buffer is a sequence of 0..255.  Go offsets are 0-based, so   *)
(*    Go's data[o] is data[o+1] here; At(data, o) hides the shift.         *)
(*  - A uint32 is the pair <<hi, lo>> of its two 16-bit halves, because    *)
(*    the model checker's integers are 32-bit signed and the code's        *)
(*    comparisons (size > 0xFFFFFFFC, int64 offset+size) must not wrap.    *)
(*  - A uint64 is the pair <<high word, low word>> of two uint32.          *)
(*  - A time.Time is the record of its UTC calendar fields; SpecDate adds  *)
(*    the location as an offset in minutes.                                *)
(***************************************************************************)
EXTENDS Integers, Sequences, FiniteSets, TLC

VARIABLES prof, wire, decIn, err, lastOp, pokes, curve, arg, result, curveOp,
          curveData, decoded, lut, lutIn, lutOut, lutOp, lutData, lutDecoded,
          clutIn, clutBlock, clutOut, clutOp,
          xfIn, xf, xfArg, xfOut, xfOp,
          sharedCurve, calls,
          shProfile, shHeap, shXf, shCalls,
          bdTable, bdPc, bdI, bdIdx, bdEntry,
          dtTime, dtBytes, dtBack, dtOp

vars == <<prof, wire, decIn, err, lastOp, pokes, curve, arg, result, curveOp,
          curveData, decoded, lut, lutIn, lutOut, lutOp, lutData, lutDecoded,
          clutIn, clutBlock, clutOut, clutOp,
          xfIn, xf, xfArg, xfOut, xfOp,
          sharedCurve, calls,
          shProfile, shHeap, shXf, shCalls,
          bdTable, bdPc, bdI, bdIdx, bdEntry,
          dtTime, dtBytes, dtBack, dtOp>>

profVars == <<prof, wire, decIn, err, lastOp, pokes>>

curveVars == <<curve, arg, result, curveOp>>

codecVars == <<curveData, decoded>>

lutVars == <<lut, lutIn, lutOut, lutOp, lutData, lutDecoded>>

clutVars == <<clutIn, clutBlock, clutOut, clutOp>>

transformVars == <<xfIn, xf, xfArg, xfOut, xfOp>>

raceVars == <<sharedCurve, calls>>

shareVars == <<shProfile, shHeap, shXf, shCalls>>

buildVars == <<bdTable, bdPc, bdI, bdIdx, bdEntry>>

dateVars == <<dtTime, dtBytes, dtBack, dtOp>>

\* what the operations on a Profile leave alone
notProf == <<curveVars, codecVars, lutVars, clutVars, transformVars, raceVars, shareVars, buildVars, dateVars>>

\* what Evaluate and Invert leave alone
notCurve == <<profVars, codecVars, lutVars, clutVars, transformVars, raceVars, shareVars, buildVars, dateVars>>

\* what the curve codec leaves alone, besides the curve
notCodec == <<profVars, lutVars, clutVars, transformVars, raceVars, shareVars, buildVars, dateVars>>

\* what the operations on a Lut leave alone
notLut == <<profVars, curveVars, codecVars, clutVars, transformVars, raceVars, shareVars, buildVars, dateVars>>

\* what the CLUT size guard's operations leave alone
notClut == <<profVars, curveVars, codecVars, lutVars, transformVars, raceVars, shareVars, buildVars, dateVars>>

\* what NewTransform and the conversions leave alone
notTransform == <<profVars, curveVars, codecVars, lutVars, clutVars, raceVars, shareVars, buildVars, dateVars>>

\* what the concurrent Invert calls leave alone
notRace == <<profVars, curveVars, codecVars, lutVars, clutVars, transformVars, shareVars, buildVars, dateVars>>

\* what the calls on two Transforms of one Profile leave alone
notShare == <<profVars, curveVars, codecVars, lutVars, clutVars, transformVars, raceVars, buildVars, dateVars>>

\* what the steps of buildInverseTable leave alone
notBuild == <<profVars, curveVars, codecVars, lutVars, clutVars, transformVars, raceVars, shareVars, dateVars>>

\* what the date/time round trip leave alone
notDate == <<profVars, curveVars, codecVars, lutVars, clutVars, transformVars, raceVars, shareVars, buildVars>>

----------------------------------------------------------------------------
(* Bounds of the model *)

\* most tags a client puts into one profile
MaxTags == 2
\* most edits a client makes to encoded bytes before decoding them
MaxPokes == 1

----------------------------------------------------------------------------
(* uint32 as a pair of 16-bit halves *)

fromInt(n) == <<n \div 65536, n % 65536>>

u32Zero == <<0, 0>>

u32Lt(a, b) == a[1] < b[1] \/ (a[1] = b[1] /\ a[2] < b[2])

u32Gt(a, b) == u32Lt(b, a)

u32Ge(a, b) == ~u32Lt(a, b)

\* a + b in 64-bit arithmetic, as <<high part, low 16 bits>>
add64(a, b) ==
    LET lo == a[2] + b[2]
    IN  <<a[1] + b[1] + (lo \div 65536), lo % 65536>>

----------------------------------------------------------------------------
(* Primitive codec: read.go, write.go *)

At(data, o) == data[o + 1]

RECURSIVE zeros(_)
zeros(n) == IF n <= 0 THEN <<>> ELSE IF n = 1 THEN <<0>>
            ELSE zeros(n \div 2) \o zeros(n - (n \div 2))

getUint16(data, offset) == At(data, offset) * 256 + At(data, offset + 1)

getUint32(data, offset) == <<getUint16(data, offset), getUint16(data, offset + 2)>>

getUint64(data, offset) == <<getUint32(data, offset), getUint32(data, offset + 4)>>

\* copy(data[offset:], src) for a src that fits into data
copyAt(data, offset, src) ==
    SubSeq(data, 1, offset) \o src \o SubSeq(data, offset + Len(src) + 1, Len(data))

\* the four bytes that putUint32 stores
uint32Bytes(value) ==
    <<value[1] \div 256, value[1] % 256, value[2] \div 256, value[2] % 256>>

putUint32(data, offset, value) == copyAt(data, offset, uint32Bytes(value))

\* the eight bytes that putUint64 stores
uint64Bytes(value) == uint32Bytes(value[1]) \o uint32Bytes(value[2])

putUint64(data, offset, value) == copyAt(data, offset, uint64Bytes(value))

isZero(b) == \A i \in DOMAIN b : b[i] = 0

\* raw := int32(value * 65536.0), then the bytes of uint32(raw);
\* value = <<num, den>>
s15Fixed16Bytes(value) ==
    LET n == value[1]
        d == value[2]
        m == IF n >= 0 THEN (n * 65536) \div d ELSE ((-n) * 65536) \div d
        raw == IF n >= 0 \/ m = 0 THEN fromInt(m)
               ELSE <<65535 - ((m - 1) \div 65536), 65535 - ((m - 1) % 65536)>>
    IN  uint32Bytes(raw)

putS15Fixed16(data, offset, value) == copyAt(data, offset, s15Fixed16Bytes(value))

----------------------------------------------------------------------------
(* time.Time and the date/time codec *)

mkTime(y, mo, d, h, mi, s) ==
    [year |-> y, month |-> mo, day |-> d, hour |-> h, minute |-> mi, second |-> s]

\* time.Time{}: January 1, year 1, 00:00:00 UTC
zeroTime == mkTime(1, 1, 1, 0, 0, 0)

isLeap(y) == (y % 4 = 0 /\ y % 100 # 0) \/ y % 400 = 0

daysIn(mo, y) ==
    IF mo = 2 THEN (IF isLeap(y) THEN 29 ELSE 28)
    ELSE IF mo \in {4, 6, 9, 11} THEN 30 ELSE 31

\* time.Date(year, month, day, hour, minute, second, 0, time.UTC) for
\* month in 1..12, day in 1..31, hour <= 23, minute <= 59, second <= 61:
\* values outside their usual range are normalised by carrying over.
timeDate(y, mo, d, h, mi, s) ==
    LET s2  == s % 60
        mi1 == mi + (s \div 60)
        mi2 == mi1 % 60
        h1  == h + (mi1 \div 60)
        h2  == h1 % 24
        d1  == d + (h1 \div 24)
        over == d1 > daysIn(mo, y)
        d2  == IF over THEN d1 - daysIn(mo, y) ELSE d1
        mo1 == IF over THEN mo + 1 ELSE mo
        mo2 == IF mo1 > 12 THEN 1 ELSE mo1
        y2  == IF mo1 > 12 THEN y + 1 ELSE y
    IN  mkTime(y2, mo2, d2, h2, mi2, s2)

getDateTime(data, offset) ==
    LET year   == getUint16(data, offset)
        month  == getUint16(data, offset + 2)
        day    == getUint16(data, offset + 4)
        hour   == getUint16(data, offset + 6)
        minute == getUint16(data, offset + 8)
        second == getUint16(data, offset + 10)
    IN  IF year < 1970 \/ year > 3000 \/ month < 1 \/ month > 12
           \/ day < 1 \/ day > 31 \/ hour > 23 \/ minute > 59 \/ second > 61
        THEN zeroTime
        ELSE timeDate(year, month, day, hour, minute, second)

\* the twelve bytes that putDateTime stores
dateTimeBytes(t) ==
    <<(t.year \div 256) % 256, t.year % 256,
      0, t.month % 256,
      0, t.day % 256,
      0, t.hour % 256,
      0, t.minute % 256,
      0, t.second % 256>>

putDateTime(data, offset, t) == copyAt(data, offset, dateTimeBytes(t))

----------------------------------------------------------------------------
(* md5.Sum: a 16-byte digest of the whole buffer.  The model uses two      *)
(* position-sensitive sums of the bytes; like MD5 for all practical inputs, *)
(* the digest is never all-zero.                                           *)

\* data[i] + 1, or 0 past the end of the buffer
byteOrPad(data, i) == IF i <= Len(data) THEN data[i] + 1 ELSE 0

\* the weighted sum of the eight bytes of block b (from 0)
blockTerm(data, b, mult) ==
    ((1 + ((b * mult) % 251))
     * (((byteOrPad(data, 8 * b + 1) + 3 * byteOrPad(data, 8 * b + 2))
         + (5 * byteOrPad(data, 8 * b + 3) + 7 * byteOrPad(data, 8 * b + 4)))
        + ((11 * byteOrPad(data, 8 * b + 5) + 13 * byteOrPad(data, 8 * b + 6))
           + (17 * byteOrPad(data, 8 * b + 7) + 19 * byteOrPad(data, 8 * b + 8))))) % 32749

\* a position-sensitive sum over the blocks lo..hi of the buffer
RECURSIVE blockSum(_, _, _, _)
blockSum(data, lo, hi, mult) ==
    IF lo > hi THEN 0
    ELSE IF lo = hi THEN blockTerm(data, lo, mult)
    ELSE (blockSum(data, lo, (lo + hi) \div 2, mult)
          + blockSum(data, ((lo + hi) \div 2) + 1, hi, mult)) % 32749

\* the 16 digest bytes made from the two sums
digest(h1, h2, n) ==
    <<1 + (h1 % 255), h1 \div 256, h1 % 256, h2 \div 256, h2 % 256,
      n % 256, (h1 + h2) % 256, (h1 * 3 + h2) % 256,
      0, 0, 0, 0, 0, 0, 0, 0>>

md5Sum(data) ==
    digest(blockSum(data, 0, (Len(data) - 1) \div 8, 31),
           blockSum(data, 0, (Len(data) - 1) \div 8, 127), Len(data))

----------------------------------------------------------------------------
(* Profile: icc.go *)

CheckSumMissing == "Missing"
CheckSumValid == "Valid"
CheckSumInvalid == "Invalid"

\* 0x0400_0000
Version4_0_0 == <<1024, 0>>
\* 0x0440_0000
Version4_4_0 == <<1088, 0>>
currentVersion == Version4_4_0

\* {0.9642, 1.0, 0.8249} as <<numerator, denominator>>
d50WhitePoint == <<<<9642, 10000>>, <<1, 1>>, <<8249, 10000>>>>

\* "acsp", 0x61637370
acsp == <<24931, 29552>>

ErrNil == "nil"
ErrInvalidVersion == "ICC profile version not set"
ErrTooShort == "profile is too short"
ErrNoMagic == "missing 'acsp' signature"
ErrTooManyTags == "too many tags"
ErrTagTooSmall == "tag is too small"
ErrTagTooLarge == "tag is too large"
ErrTagBounds == "tag is out of bounds"

InvalidProfileErrors ==
    {ErrTooShort, ErrNoMagic, ErrTooManyTags, ErrTagTooSmall, ErrTagTooLarge, ErrTagBounds}

\* the *Profile returned next to an error
nilProfile == [nil |-> TRUE]

----------------------------------------------------------------------------
(* Decode: read.go *)

invalidProfile(offset, reason, data) ==
    [err |-> reason, off |-> offset, p |-> nilProfile, data |-> data]

\* zeroForID without the write to the flags field
zeroForID_keepFlags(data) ==
    copyAt(putUint32(data, 64, u32Zero), 84, zeros(16))

\* for i := 84; i < 100; i++ { data[i] = 0 }, after the two putUint32 calls
zeroForID(data) ==
    LET d1 == putUint32(data, 44, u32Zero)
        d2 == putUint32(d1, 64, u32Zero)
    IN  copyAt(d2, 84, zeros(16))

\* the loop over the tag table; tags maps each signature to its byte run
RECURSIVE decodeTags(_, _, _, _)
decodeTags(data, numTags, i, tags) ==
    IF i >= numTags THEN [err |-> ErrNil, off |-> 0, tags |-> tags]
    ELSE
        LET offset    == 128 + 4 + i * 12
            tagType   == getUint32(data, offset)
            tagOffset == getUint32(data, offset + 4)
            tagSize   == getUint32(data, offset + 8)
            minTagOffset == 128 + 4 + numTags * 12
            end64     == add64(tagOffset, tagSize)
        IN  IF u32Lt(tagSize, <<0, 4>>)
                THEN [err |-> ErrTagTooSmall, off |-> offset + 8, tags |-> tags]
            ELSE IF u32Gt(tagSize, <<65535, 65532>>)
                THEN [err |-> ErrTagTooLarge, off |-> offset + 8, tags |-> tags]
            ELSE IF u32Lt(tagOffset, fromInt(minTagOffset))
                    \/ u32Gt(end64, fromInt(Len(data)))
                THEN [err |-> ErrTagBounds, off |-> offset, tags |-> tags]
            ELSE
                LET start == tagOffset[1] * 65536 + tagOffset[2]
                    end   == end64[1] * 65536 + end64[2]
                IN  decodeTags(data, numTags, i + 1,
                               (tagType :> SubSeq(data, start + 1, end)) @@ tags)

\* the header fields, read before anything is checked or changed
decodeHeader(data) ==
    [PreferredCMMType   |-> getUint32(data, 4),
     Version            |-> getUint32(data, 8),
     Class              |-> getUint32(data, 12),
     ColorSpace         |-> getUint32(data, 16),
     PCS                |-> getUint32(data, 20),
     CreationDate       |-> getDateTime(data, 24),
     PrimaryPlatform    |-> getUint32(data, 40),
     Flags              |-> getUint32(data, 44),
     DeviceManufacturer |-> getUint32(data, 48),
     DeviceModel        |-> getUint32(data, 52),
     DeviceAttributes   |-> getUint64(data, 56),
     RenderingIntent    |-> getUint32(data, 64),
     Creator            |-> getUint32(data, 80),
     CheckSum           |-> CheckSumMissing,
     TagData            |-> <<>>]

\* the comparison of the digest of the zeroed buffer with the given ID
verifyZeroed(givenHash, zeroed) ==
    [checkSum |-> IF Len(zeroed) > 0 /\ md5Sum(zeroed) = givenHash
                  THEN CheckSumValid ELSE CheckSumInvalid,
     data     |-> zeroed]

\* the Profile ID check: the CheckSum it yields and the buffer it leaves
verifyID(data) ==
    IF isZero(SubSeq(data, 85, 100)) THEN [checkSum |-> CheckSumMissing, data |-> data]
    ELSE verifyZeroed(SubSeq(data, 85, 100), zeroForID(data))

\* the end of Decode, from the ID check on
decodeFinish(p0, id, t) ==
    IF t.err # ErrNil THEN invalidProfile(t.off, t.err, id.data)
    ELSE [err  |-> ErrNil,
          off  |-> 0,
          p    |-> [p0 EXCEPT !.CheckSum = id.checkSum,
                              !.TagData = t.tags,
                              !.Version = IF @ = u32Zero THEN currentVersion ELSE @],
          data |-> id.data]

decodeBody(data, numTags, id) ==
    decodeFinish(decodeHeader(data), id, decodeTags(id.data, numTags, 0, <<>>))

\* Decode without the test of the "acsp" signature
Decode_noMagic(data) ==
    IF Len(data) < 128 + 4 THEN invalidProfile(0, ErrTooShort, data)
    ELSE IF u32Gt(getUint32(data, 128), fromInt((Len(data) - 128 - 4) \div 12))
        THEN invalidProfile(128, ErrTooManyTags, data)
    ELSE decodeBody(data, getUint32(data, 128)[2], verifyID(data))

Decode(data) ==
    IF Len(data) < 128 + 4 THEN invalidProfile(0, ErrTooShort, data)
    ELSE IF getUint32(data, 36) # acsp THEN invalidProfile(36, ErrNoMagic, data)
    ELSE IF u32Gt(getUint32(data, 128), fromInt((Len(data) - 128 - 4) \div 12))
        THEN invalidProfile(128, ErrTooManyTags, data)
    ELSE decodeBody(data, getUint32(data, 128)[2], verifyID(data))

----------------------------------------------------------------------------
(* Profile.Encode: write.go *)

\* bytes.Compare
RECURSIVE bytesCompare(_, _, _)
bytesCompare(a, b, i) ==
    IF i > Len(a) /\ i > Len(b) THEN 0
    ELSE IF i > Len(a) THEN -1
    ELSE IF i > Len(b) THEN 1
    ELSE IF a[i] < b[i] THEN -1
    ELSE IF a[i] > b[i] THEN 1
    ELSE bytesCompare(a, b, i + 1)

\* tagLess without the tie-break on the signature
tagLess_noTie(x, y) == bytesCompare(x.data, y.data, 1) < 0

\* the comparison function handed to sort.Slice
tagLess(x, y) ==
    LET cmp == bytesCompare(x.data, y.data, 1)
    IN  IF cmp # 0 THEN cmp < 0 ELSE u32Lt(x.tagType, y.tagType)

\* sort.Slice on a short slice: insertion sort driven by tagLess
RECURSIVE insertTag(_, _)
insertTag(s, x) ==
    IF s = <<>> THEN <<x>>
    ELSE IF tagLess(x, s[Len(s)])
        THEN Append(insertTag(SubSeq(s, 1, Len(s) - 1), x), s[Len(s)])
    ELSE Append(s, x)

RECURSIVE sortTags(_, _, _)
sortTags(tags, i, acc) ==
    IF i > Len(tags) THEN acc ELSE sortTags(tags, i + 1, insertTag(acc, tags[i]))

\* roundUp4 that does not round
roundUp4_none(n) == n

\* (n + 3) &^ 3
roundUp4(n) == ((n + 3) \div 4) * 4

\* the loop that assigns start offsets and merges duplicates
RECURSIVE layoutTags(_, _, _, _)
layoutTags(tags, i, pos, acc) ==
    IF i > Len(tags) THEN [tags |-> acc, pos |-> pos]
    ELSE IF i > 1 /\ tags[i].data = tags[i - 1].data
        THEN layoutTags(tags, i + 1, pos,
                        Append(acc, [tagType |-> tags[i].tagType, data |-> tags[i].data,
                                     start |-> acc[i - 1].start, duplicate |-> TRUE]))
    ELSE layoutTags(tags, i + 1, pos + roundUp4(Len(tags[i].data)),
                    Append(acc, [tagType |-> tags[i].tagType, data |-> tags[i].data,
                                 start |-> pos, duplicate |-> FALSE]))

\* the stores lo..hi of writes, each <<offset, bytes>>, done in order into
\* buf: the first half, then the second; a store past the end of buf would
\* panic and does not occur
RECURSIVE applyWrites(_, _, _, _)
applyWrites(buf, writes, lo, hi) ==
    IF lo > hi \/ writes[lo][1] + Len(writes[lo][2]) > Len(buf) THEN buf
    ELSE IF lo = hi THEN copyAt(buf, writes[lo][1], writes[lo][2])
    ELSE applyWrites(applyWrites(buf, writes, lo, (lo + hi) \div 2),
                     writes, ((lo + hi) \div 2) + 1, hi)

\* the stores of one turn of the loop over the tags: the table entry at
\* index i (from 0) and, unless the tag is a duplicate, the tag body
oneTagWrites(tag, i) ==
    << <<128 + 4 + i * 12, uint32Bytes(tag.tagType)>>,
       <<128 + 4 + i * 12 + 4, uint32Bytes(fromInt(tag.start))>>,
       <<128 + 4 + i * 12 + 8, uint32Bytes(fromInt(Len(tag.data)))>> >>
    \o (IF ~tag.duplicate THEN << <<tag.start, tag.data>> >> ELSE <<>>)

\* the stores of the loop that writes the tag table and the tag bodies
RECURSIVE tagWrites(_, _)
tagWrites(tags, i) ==
    IF i > Len(tags) THEN <<>> ELSE oneTagWrites(tags[i], i - 1) \o tagWrites(tags, i + 1)

\* the stores into the header, up to the tag count
headerWrites(p, pos, numTags) ==
    << <<0, uint32Bytes(fromInt(pos))>>,
       <<4, uint32Bytes(p.PreferredCMMType)>>,
       <<8, uint32Bytes(p.Version)>>,
       <<12, uint32Bytes(p.Class)>>,
       <<16, uint32Bytes(p.ColorSpace)>>,
       <<20, uint32Bytes(p.PCS)>>,
       <<24, dateTimeBytes(p.CreationDate)>>,
       <<36, uint32Bytes(acsp)>>,
       <<40, uint32Bytes(p.PrimaryPlatform)>>,
       <<48, uint32Bytes(p.DeviceManufacturer)>>,
       <<52, uint32Bytes(p.DeviceModel)>>,
       <<56, uint64Bytes(p.DeviceAttributes)>>,
       <<68, s15Fixed16Bytes(d50WhitePoint[1])>>,
       <<72, s15Fixed16Bytes(d50WhitePoint[2])>>,
       <<76, s15Fixed16Bytes(d50WhitePoint[3])>>,
       <<80, uint32Bytes(p.Creator)>>,
       <<128, uint32Bytes(fromInt(numTags))>> >>

\* the tag list after sorting and layout; order is the order in which the
\* range loop visits the keys of p.TagData
encodeLayout(p, order) ==
    LET tags0 == [i \in 1..Len(order) |-> [tagType |-> order[i], data |-> p.TagData[order[i]]]]
    IN  layoutTags(sortTags(tags0, 1, <<>>), 1, 128 + 4 + Len(order) * 12, <<>>)

\* all stores of writes, done in order into buf
applyAll(buf, writes) == applyWrites(buf, writes, 1, Len(writes))

\* the header and tag table as they are when the Profile ID is computed;
\* lay is the tag list with its offsets and pos the total size
encodeBody(p, lay) ==
    applyAll(zeros(lay.pos), headerWrites(p, lay.pos, Len(lay.tags)) \o tagWrites(lay.tags, 1))

\* encodeFinish with the flags written before the Profile ID is computed
encodeFinish_flagsFirst(p, buf) ==
    LET b1 == putUint32(buf, 44, p.Flags)
        withID == IF u32Ge(p.Version, Version4_0_0)
                  THEN copyAt(b1, 84, md5Sum(b1)) ELSE b1
    IN  putUint32(withID, 64, p.RenderingIntent)

\* encodeFinish with the rendering intent written before the Profile ID is computed
encodeFinish_intentFirst(p, buf) ==
    LET b1 == putUint32(buf, 64, p.RenderingIntent)
        withID == IF u32Ge(p.Version, Version4_0_0)
                  THEN copyAt(b1, 84, md5Sum(b1)) ELSE b1
    IN  putUint32(withID, 44, p.Flags)

\* h := md5.Sum(buf); copy(buf[84:], h[:]); then flags and rendering intent
encodeFinish(p, buf) ==
    LET withID == IF u32Ge(p.Version, Version4_0_0)
                  THEN copyAt(buf, 84, md5Sum(buf)) ELSE buf
        b1 == putUint32(withID, 44, p.Flags)
    IN  putUint32(b1, 64, p.RenderingIntent)

\* Encode that falls back to the current version when none is set
Encode_defaultVersion(p, order) ==
    LET q == [p EXCEPT !.Version = IF @ = u32Zero THEN currentVersion ELSE @]
    IN  [buf |-> encodeFinish(q, encodeBody(q, encodeLayout(q, order))), err |-> ErrNil]

Encode(p, order) ==
    IF p.Version = u32Zero THEN [buf |-> <<>>, err |-> ErrInvalidVersion]
    ELSE [buf |-> encodeFinish(p, encodeBody(p, encodeLayout(p, order))), err |-> ErrNil]

----------------------------------------------------------------------------
(* Real numbers.  A float64 is modelled by the exact rational <<n, d>>     *)
(* with d > 0 in lowest terms; the inputs of the model are chosen so that  *)
(* every operation on them is exact.                                       *)

RECURSIVE gcd(_, _)
gcd(a, b) == IF b = 0 THEN a ELSE gcd(b, a % b)

abs(n) == IF n < 0 THEN -n ELSE n

reduceBy(n, d, g) == <<n \div g, d \div g>>

rat(n, d) ==
    IF d < 0 THEN reduceBy(-n, -d, gcd(abs(n), -d)) ELSE reduceBy(n, d, gcd(abs(n), d))

fromI(n) == <<n, 1>>

rZero == <<0, 1>>
rOne == <<1, 1>>

addBy(a, b, g) == rat(a[1] * (b[2] \div g) + b[1] * (a[2] \div g), (a[2] \div g) * b[2])

rAdd(a, b) == addBy(a, b, gcd(a[2], b[2]))

rNeg(a) == <<-a[1], a[2]>>

rSub(a, b) == rAdd(a, rNeg(b))

mulBy(a, b, g1, g2) ==
    rat((a[1] \div g1) * (b[1] \div g2), (a[2] \div g2) * (b[2] \div g1))

rMul(a, b) ==
    IF a[1] = 0 \/ b[1] = 0 THEN rZero
    ELSE mulBy(a, b, gcd(abs(a[1]), b[2]), gcd(abs(b[1]), a[2]))

\* a / b for b # 0
rDiv(a, b) == rMul(a, IF b[1] < 0 THEN <<-b[2], -b[1]>> ELSE <<b[2], b[1]>>)

rLt(a, b) == a[1] * b[2] < b[1] * a[2]

rLe(a, b) == a[1] * b[2] <= b[1] * a[2]

\* int(v) for v >= 0
truncInt(v) == v[1] \div v[2]

\* the integer square root
isqrt(n) == CHOOSE r \in 0..n : r * r <= n /\ (r + 1) * (r + 1) > n

\* math.Pow(x, g) for x > 0 and the exponents the model uses: 1, 2 and 1/2
\* (the latter on squares of rationals)
mathPow(x, g) ==
    IF g = rOne THEN x
    ELSE IF g = <<2, 1>> THEN rMul(x, x)
    ELSE IF g = <<1, 2>> THEN <<isqrt(x[1]), isqrt(x[2])>>
    ELSE x

clamp(v, lo, hi) == IF rLt(v, lo) THEN lo ELSE IF rLt(hi, v) THEN hi ELSE v

----------------------------------------------------------------------------
(* Curve: the 1D transfer function.  A Go slice is the record of its nil   *)
(* flag and its elements.                                                  *)

nilSlice == [nil |-> TRUE, v |-> <<>>]

slice(s) == [nil |-> FALSE, v |-> s]

\* const invSize in buildInverseTable
invSize == 4096

mkCurve(gamma, funcType, params, table) ==
    [Gamma |-> gamma, FuncType |-> funcType, Params |-> params, Table |-> table,
     inverseTable |-> nilSlice]

\* Params[i] with Go's 0-based index
param(c, i) == c.Params.v[i + 1]

\* float64(c.Table[i]) / 65535.0 with Go's 0-based index
sample(c, i) == rat(c.Table.v[i + 1], 65535)

powOrZero(v, g, zero, plus) ==
    IF v[1] <= 0 THEN zero ELSE rAdd(mathPow(v, g), plus)

evaluateParametric(c, x) ==
    IF c.FuncType = 0 THEN
        IF x[1] <= 0 THEN rZero ELSE mathPow(x, param(c, 0))
    ELSE IF c.FuncType = 1 THEN
        IF rLe(rDiv(rNeg(param(c, 2)), param(c, 1)), x)
        THEN powOrZero(rAdd(rMul(param(c, 1), x), param(c, 2)), param(c, 0), rZero, rZero)
        ELSE rZero
    ELSE IF c.FuncType = 2 THEN
        IF rLe(rDiv(rNeg(param(c, 2)), param(c, 1)), x)
        THEN powOrZero(rAdd(rMul(param(c, 1), x), param(c, 2)), param(c, 0),
                       param(c, 3), param(c, 3))
        ELSE param(c, 3)
    ELSE IF c.FuncType = 3 THEN
        IF rLe(param(c, 4), x)
        THEN powOrZero(rAdd(rMul(param(c, 1), x), param(c, 2)), param(c, 0), rZero, rZero)
        ELSE rMul(param(c, 3), x)
    ELSE IF c.FuncType = 4 THEN
        IF rLe(param(c, 4), x)
        THEN powOrZero(rAdd(rMul(param(c, 1), x), param(c, 2)), param(c, 0),
                       param(c, 5), param(c, 5))
        ELSE rAdd(rMul(param(c, 3), x), param(c, 6))
    ELSE x

\* v0 + frac*(v1-v0) with frac = pos - float64(idx)
lerp(v0, v1, pos, idx) == rAdd(v0, rMul(rSub(pos, fromI(idx)), rSub(v1, v0)))

sampledAt(c, n, pos, idx) ==
    IF idx < 0 THEN sample(c, 0)
    ELSE IF idx >= n - 1 THEN sample(c, n - 1)
    ELSE lerp(sample(c, idx), sample(c, idx + 1), pos, idx)

evaluateSampled(c, x) ==
    IF Len(c.Table.v) = 0 THEN x
    ELSE IF Len(c.Table.v) = 1 THEN sample(c, 0)
    ELSE sampledAt(c, Len(c.Table.v), rMul(x, fromI(Len(c.Table.v) - 1)),
                   truncInt(rMul(x, fromI(Len(c.Table.v) - 1))))

\* Evaluate on an input that is already clamped
evaluateClamped(c, x) ==
    IF c.Gamma # rZero /\ c.Params.nil /\ c.Table.nil THEN
        (IF x[1] <= 0 THEN rZero ELSE mathPow(x, c.Gamma))
    ELSE IF ~c.Params.nil THEN evaluateParametric(c, x)
    ELSE IF ~c.Table.nil THEN evaluateSampled(c, x)
    ELSE x

Evaluate(c, x) == clamp(evaluateClamped(c, clamp(x, rZero, rOne)), rZero, rOne)

\* the offset b left out
invPow_noOffset(v, invG, b, a) == rDiv(mathPow(v, invG), a)

\* (math.Pow(v, invG) - b) / a
invPow(v, invG, b, a) == rDiv(rSub(mathPow(v, invG), b), a)

invertParametric(c, y) ==
    IF param(c, 0) = rZero THEN rZero
    ELSE IF c.FuncType = 0 THEN
        IF y[1] <= 0 THEN rZero ELSE mathPow(y, rDiv(rOne, param(c, 0)))
    ELSE IF c.FuncType = 1 THEN
        IF param(c, 1) = rZero THEN rZero
        ELSE IF y[1] <= 0 THEN rDiv(rNeg(param(c, 2)), param(c, 1))
        ELSE invPow(y, rDiv(rOne, param(c, 0)), param(c, 2), param(c, 1))
    ELSE IF c.FuncType = 2 THEN
        IF param(c, 1) = rZero THEN rZero
        ELSE IF rSub(y, param(c, 3))[1] <= 0 THEN rDiv(rNeg(param(c, 2)), param(c, 1))
        ELSE invPow(rSub(y, param(c, 3)), rDiv(rOne, param(c, 0)), param(c, 2), param(c, 1))
    ELSE IF c.FuncType = 3 THEN
        IF rLt(y, rMul(param(c, 3), param(c, 4))) THEN
            (IF param(c, 3) = rZero THEN rZero ELSE rDiv(y, param(c, 3)))
        ELSE IF param(c, 1) = rZero THEN param(c, 4)
        ELSE IF y[1] <= 0 THEN param(c, 4)
        ELSE invPow(y, rDiv(rOne, param(c, 0)), param(c, 2), param(c, 1))
    ELSE IF c.FuncType = 4 THEN
        IF rLt(y, rAdd(rMul(param(c, 3), param(c, 4)), param(c, 6))) THEN
            (IF param(c, 3) = rZero THEN rZero
             ELSE rDiv(rSub(y, param(c, 6)), param(c, 3)))
        ELSE IF param(c, 1) = rZero THEN param(c, 4)
        ELSE IF rSub(y, param(c, 5))[1] <= 0 THEN param(c, 4)
        ELSE invPow(rSub(y, param(c, 5)), rDiv(rOne, param(c, 0)), param(c, 2), param(c, 1))
    ELSE y

\* sort.Search(n, func(j) bool { return c.Table[j] >= target }), from i and j
RECURSIVE sortSearch(_, _, _, _)
sortSearch(table, target, i, j) ==
    IF i >= j THEN i
    ELSE IF ~(table[((i + j) \div 2) + 1] >= target)
        THEN sortSearch(table, target, ((i + j) \div 2) + 1, j)
    ELSE sortSearch(table, target, i, (i + j) \div 2)

\* every non-final entry maps to the upper sample
inverseEntryAt_upper(table, n, target, idx) ==
    IF idx = 0 THEN rZero
    ELSE IF idx >= n THEN rOne
    ELSE rat(idx, n - 1)

\* the entry of the inverse table at index i, for n = len(Table) > 0,
\* given the index idx that the binary search returns for the target
inverseEntryAt(table, n, target, idx) ==
    IF idx = 0 THEN rZero
    ELSE IF idx >= n THEN rOne
    ELSE IF table[idx + 1] = table[idx] THEN rat(idx, n - 1)
    ELSE rDiv(rAdd(fromI(idx - 1), rat(target - table[idx], table[idx + 1] - table[idx])),
              fromI(n - 1))

\* target := uint16(float64(i) / float64(invSize-1) * 65535.0)
inverseTarget(i) == (i * 65535) \div (invSize - 1)

inverseEntry(table, i) ==
    IF Len(table) = 0 THEN rat(i, invSize - 1)
    ELSE inverseEntryAt(table, Len(table), inverseTarget(i),
                        sortSearch(table, inverseTarget(i), 0, Len(table)))

buildInverseTable(c) ==
    [c EXCEPT !.inverseTable = slice([i \in 1..invSize |-> inverseEntry(c.Table.v, i - 1)])]

\* the interpolation in the inverse table t of length n
invertInTable(t, n, pos, idx) ==
    IF idx < 0 THEN t[1]
    ELSE IF idx >= n - 1 THEN t[n]
    ELSE lerp(t[idx + 1], t[idx + 2], pos, idx)

\* invertSampled on a curve whose inverse table is present
invertWithTable(c, y) ==
    [c |-> c,
     y |-> IF Len(c.inverseTable.v) = 0 THEN y
           ELSE invertInTable(c.inverseTable.v, Len(c.inverseTable.v),
                              rMul(y, fromI(Len(c.inverseTable.v) - 1)),
                              truncInt(rMul(y, fromI(Len(c.inverseTable.v) - 1))))]

\* the table is built for the call and dropped
invertSampled_noCache(c, y) ==
    [c |-> c, y |-> invertWithTable(buildInverseTable(c), y).y]

invertSampled(c, y) ==
    IF c.inverseTable.nil THEN invertWithTable(buildInverseTable(c), y)
    ELSE invertWithTable(c, y)

\* Invert on an input that is already clamped: the result and the curve
\* as the call leaves it
invertClamped(c, y) ==
    IF c.Gamma # rZero /\ c.Params.nil /\ c.Table.nil THEN
        [c |-> c, y |-> IF y[1] <= 0 THEN rZero ELSE mathPow(y, rDiv(rOne, c.Gamma))]
    ELSE IF ~c.Params.nil THEN [c |-> c, y |-> invertParametric(c, y)]
    ELSE IF ~c.Table.nil THEN invertSampled(c, y)
    ELSE [c |-> c, y |-> y]

Invert(c, y) == invertClamped(c, clamp(y, rZero, rOne))

----------------------------------------------------------------------------
(* The curve codec: DecodeCurve and Curve.Encode.  A decoded curve comes   *)
(* with its error; a failed call returns the nil curve.                    *)

errInvalidTagData == "invalid tag data"
errUnexpectedType == "unexpected type"

nilCurve == [nil |-> TRUE]

curveResult(c, e) == [c |-> c, err |-> e]

\* "curv" and "para"
curv == <<99, 117, 114, 118>>
para == <<112, 97, 114, 97>>

\* the two bytes that putUint16 stores
uint16Bytes(value) == <<value \div 256, value % 256>>

\* a division by 65535
getS15Fixed16_65535(data, offset) ==
    LET u == getUint32(data, offset)
    IN  rat(IF u[1] >= 32768 THEN (u[1] - 65536) * 65536 + u[2]
            ELSE u[1] * 65536 + u[2], 65535)

\* float64(int32(getUint32(data, offset))) / 65536.0
getS15Fixed16(data, offset) ==
    LET u == getUint32(data, offset)
    IN  rat(IF u[1] >= 32768 THEN (u[1] - 65536) * 65536 + u[2]
            ELSE u[1] * 65536 + u[2], 65536)

\* the uint64 comparison len(data) < 12 + 2*n is decided by the high half
\* of n as soon as that is not zero
decodeCurveType(data) ==
    IF Len(data) < 12 THEN curveResult(nilCurve, errInvalidTagData)
    ELSE IF getUint32(data, 8) = u32Zero
    THEN curveResult(mkCurve(rOne, 0, nilSlice, nilSlice), ErrNil)
    ELSE IF getUint32(data, 8) = <<0, 1>>
    THEN IF Len(data) < 14 THEN curveResult(nilCurve, errInvalidTagData)
         ELSE curveResult(mkCurve(rat(getUint16(data, 12), 256), 0, nilSlice, nilSlice),
                          ErrNil)
    ELSE IF getUint32(data, 8)[1] > 0 \/ Len(data) < 12 + 2 * getUint32(data, 8)[2]
    THEN curveResult(nilCurve, errInvalidTagData)
    ELSE curveResult(
             mkCurve(rZero, 0, nilSlice,
                     slice([i \in 1..getUint32(data, 8)[2] |->
                                getUint16(data, 12 + (i - 1) * 2)])),
             ErrNil)

\* the switch on the function type in decodeParametricCurve and
\* encodeParametric; 0 stands for its default case
numParamsOf(funcType) ==
    CASE funcType = 0 -> 1
      [] funcType = 1 -> 3
      [] funcType = 2 -> 4
      [] funcType = 3 -> 5
      [] funcType = 4 -> 7
      [] OTHER -> 0

decodeParametricCurve(data) ==
    IF Len(data) < 12 THEN curveResult(nilCurve, errInvalidTagData)
    ELSE IF getUint16(data, 8) > 4 THEN curveResult(nilCurve, errInvalidTagData)
    ELSE IF Len(data) < 12 + numParamsOf(getUint16(data, 8)) * 4
    THEN curveResult(nilCurve, errInvalidTagData)
    ELSE curveResult(
             mkCurve(rZero, getUint16(data, 8),
                     slice([i \in 1..numParamsOf(getUint16(data, 8)) |->
                                getS15Fixed16(data, 12 + (i - 1) * 4)]),
                     nilSlice),
             ErrNil)

DecodeCurve(data) ==
    IF Len(data) < 8 THEN curveResult(nilCurve, errInvalidTagData)
    ELSE IF SubSeq(data, 1, 4) = curv THEN decodeCurveType(data)
    ELSE IF SubSeq(data, 1, 4) = para THEN decodeParametricCurve(data)
    ELSE curveResult(nilCurve, errUnexpectedType)

RECURSIVE tableBytes(_, _)
tableBytes(table, i) ==
    IF i > Len(table) THEN <<>>
    ELSE uint16Bytes(table[i]) \o tableBytes(table, i + 1)

\* uint16(c.Gamma * 256.0), for a Gamma in [0, 256)
encodeCurveType(c) ==
    IF ~c.Table.nil
    THEN curv \o zeros(4) \o uint32Bytes(fromInt(Len(c.Table.v)))
              \o tableBytes(c.Table.v, 1)
    ELSE IF c.Gamma = rOne THEN curv \o zeros(8)
    ELSE curv \o zeros(4) \o uint32Bytes(<<0, 1>>)
              \o uint16Bytes(truncInt(rMul(c.Gamma, <<256, 1>>)))

RECURSIVE paramBytes(_, _, _)
paramBytes(params, i, numParams) ==
    IF i > numParams THEN <<>>
    ELSE (IF i <= Len(params) THEN s15Fixed16Bytes(params[i]) ELSE zeros(4))
         \o paramBytes(params, i + 1, numParams)

encodeParametric(c) ==
    para \o zeros(4) \o uint16Bytes(c.FuncType % 65536) \o zeros(2)
         \o paramBytes(c.Params.v, 1,
                       IF c.FuncType \in 0..4 THEN numParamsOf(c.FuncType)
                       ELSE Len(c.Params.v))

EncodeCurve(c) ==
    IF ~c.Params.nil THEN encodeParametric(c) ELSE encodeCurveType(c)

----------------------------------------------------------------------------
(* The LUT evaluator: lut.go and interp.go.  A vector of float64 is a      *)
(* sequence of rationals; a read past the end of a slice panics.           *)

\* the outcome "panic: index out of range", as the one vector that is no
\* vector of rationals: its component has the denominator 0
panicked == << <<0, 0>> >>

\* make([]float64, n)
zeroValues(n) == [i \in 1..n |-> rZero]

clampValues(values) == [i \in DOMAIN values |-> clamp(values[i], rZero, rOne)]

applyCurves(curves, values) ==
    IF curves.nil THEN values
    ELSE [i \in DOMAIN values |->
             IF i <= Len(curves.v) /\ curves.v[i] # nilCurve
             THEN Evaluate(curves.v[i], values[i]) ELSE values[i]]

applyMatrix3x3(m, values) ==
    IF m.nil \/ Len(values) # 3 THEN values
    ELSE [i \in 1..3 |->
             rAdd(rAdd(rMul(m.v[3 * i - 2], values[1]), rMul(m.v[3 * i - 1], values[2])),
                  rMul(m.v[3 * i], values[3]))]

applyMatrix3x4(m, values) ==
    IF m.nil \/ Len(values) # 3 THEN values
    ELSE [i \in 1..3 |->
             rAdd(rAdd(rAdd(rMul(m.v[3 * i - 2], values[1]),
                            rMul(m.v[3 * i - 1], values[2])),
                       rMul(m.v[3 * i], values[3])),
                  m.v[9 + i])]

\* int(pos) is kept when it is past the last cube
cornerIndex_noUpper(pos, gridSize) == IF pos[1] < 0 THEN 0 ELSE truncInt(pos)

\* the index of the cube corner below pos: int(pos), not below 0 and not
\* above gridSize - 2
cornerIndex(pos, gridSize) ==
    IF pos[1] < 0 THEN 0
    ELSE IF truncInt(pos) >= gridSize - 1
    THEN (IF gridSize >= 2 THEN gridSize - 2 ELSE 0)
    ELSE truncInt(pos)

\* clamp(pos - float64(idx), 0, 1) along one axis
cornerFrac(x, gridSize) ==
    clamp(rSub(rMul(x, fromI(gridSize - 1)),
               fromI(cornerIndex(rMul(x, fromI(gridSize - 1)), gridSize))),
          rZero, rOne)

\* (1-f1)*clut[c000+i] + (f1-f2)*clut[cA+i] + (f2-f3)*clut[cB+i] + f3*clut[c111+i]
\* with Go's 0-based indices
tetrahedron(clut, i, f1, f2, f3, c000, cA, cB, c111) ==
    rAdd(rAdd(rMul(rSub(rOne, f1), clut[c000 + i + 1]),
              rMul(rSub(f1, f2), clut[cA + i + 1])),
         rAdd(rMul(rSub(f2, f3), clut[cB + i + 1]),
              rMul(f3, clut[c111 + i + 1])))

\* the six tetrahedra, by the order of the three fractions
tetrahedralAt(clut, i, fr, fg, fb, base, rStride, gStride, stride) ==
    IF rLt(fg, fr)
    THEN IF rLt(fb, fg)
         THEN tetrahedron(clut, i, fr, fg, fb, base, base + rStride,
                          base + rStride + gStride, base + rStride + gStride + stride)
         ELSE IF rLt(fb, fr)
         THEN tetrahedron(clut, i, fr, fb, fg, base, base + rStride,
                          base + rStride + stride, base + rStride + gStride + stride)
         ELSE tetrahedron(clut, i, fb, fr, fg, base, base + stride,
                          base + rStride + stride, base + rStride + gStride + stride)
    ELSE IF rLt(fb, fr)
         THEN tetrahedron(clut, i, fg, fr, fb, base, base + gStride,
                          base + rStride + gStride, base + rStride + gStride + stride)
         ELSE IF rLt(fb, fg)
         THEN tetrahedron(clut, i, fg, fb, fr, base, base + gStride,
                          base + gStride + stride, base + rStride + gStride + stride)
         ELSE tetrahedron(clut, i, fb, fg, fr, base, base + stride,
                          base + gStride + stride, base + rStride + gStride + stride)

\* every tetrahedron reads the corners c000 and c111, so the call panics
\* exactly when c111 + outChannels - 1 is past the end of the CLUT
tetrahedralInterp3D(clut, gridSize, outChannels, r, g, b) ==
    IF gridSize < 2
    THEN [i \in 1..outChannels |->
             IF Len(clut) >= outChannels THEN clut[i] ELSE rZero]
    ELSE LET scale == fromI(gridSize - 1)
             stride == outChannels
             gStride == gridSize * outChannels
             rStride == gridSize * gridSize * outChannels
             base == cornerIndex(rMul(r, scale), gridSize) * rStride
                     + cornerIndex(rMul(g, scale), gridSize) * gStride
                     + cornerIndex(rMul(b, scale), gridSize) * stride
         IN  IF base + rStride + gStride + stride + outChannels > Len(clut)
             THEN panicked
             ELSE [i \in 1..outChannels |->
                      tetrahedralAt(clut, i - 1, cornerFrac(r, gridSize),
                                    cornerFrac(g, gridSize), cornerFrac(b, gridSize),
                                    base, rStride, gStride, stride)]

\* strides[d] with Go's 0-based d: outChannels times the grid sizes after d
RECURSIVE strideOf(_, _, _)
strideOf(gridPoints, outChannels, d) ==
    IF d + 1 >= Len(gridPoints) THEN outChannels
    ELSE gridPoints[d + 2] * strideOf(gridPoints, outChannels, d + 1)

\* the sum over the corners that the loop over corner visits, of
\* weight * clut[baseOffset + offset + i]; a corner past the end of the
\* CLUT adds nothing
RECURSIVE cornerSum(_, _, _, _, _, _, _)
cornerSum(clut, gridPoints, outChannels, input, d, at, weight) ==
    IF d = Len(gridPoints)
    THEN (IF at < Len(clut) THEN rMul(weight, clut[at + 1]) ELSE rZero)
    ELSE rAdd(cornerSum(clut, gridPoints, outChannels, input, d + 1, at,
                        rMul(weight, rSub(rOne, cornerFrac(input[d + 1], gridPoints[d + 1])))),
              cornerSum(clut, gridPoints, outChannels, input, d + 1,
                        at + strideOf(gridPoints, outChannels, d),
                        rMul(weight, cornerFrac(input[d + 1], gridPoints[d + 1]))))

RECURSIVE baseOffsetOf(_, _, _, _)
baseOffsetOf(gridPoints, outChannels, input, d) ==
    IF d = Len(gridPoints) THEN 0
    ELSE cornerIndex(rMul(input[d + 1], fromI(gridPoints[d + 1] - 1)), gridPoints[d + 1])
             * strideOf(gridPoints, outChannels, d)
         + baseOffsetOf(gridPoints, outChannels, input, d + 1)

multilinearInterp(clut, gridPoints, outChannels, input) ==
    IF Len(gridPoints) = 0 \/ Len(input) # Len(gridPoints) THEN zeroValues(outChannels)
    ELSE [i \in 1..outChannels |->
             cornerSum(clut, gridPoints, outChannels, input, 0,
                       baseOffsetOf(gridPoints, outChannels, input, 0) + i - 1, rOne)]

\* LutAToB.applyCLUT and LutBToA.applyCLUT
applyCLUT(l, values) ==
    IF l.clut.nil \/ Len(l.gridPoints) # Len(values) THEN values
    ELSE IF Len(values) = 3 /\ l.gridPoints[1] = l.gridPoints[2]
            /\ l.gridPoints[2] = l.gridPoints[3]
    THEN tetrahedralInterp3D(l.clut.v, l.gridPoints[1], l.outputChannels,
                             values[1], values[2], values[3])
    ELSE multilinearInterp(l.clut.v, l.gridPoints, l.outputChannels, values)

\* Lut8.applyCLUT and Lut16.applyCLUT, gridPoints being one number
applyCLUTUniform(l, values) ==
    IF l.clut.nil \/ l.gridPoints = 0 THEN values
    ELSE IF Len(values) = 3
    THEN tetrahedralInterp3D(l.clut.v, l.gridPoints, l.outputChannels,
                             values[1], values[2], values[3])
    ELSE multilinearInterp(l.clut.v, [i \in 1..l.inputChannels |-> l.gridPoints],
                           l.outputChannels, values)

\* the stages after a stage that may have panicked
andThen(values, rest(_)) == IF values = panicked THEN panicked ELSE rest(values)

ApplyLut8(l, input) ==
    IF Len(input) # l.inputChannels THEN zeroValues(l.outputChannels)
    ELSE andThen(applyCLUTUniform(l, applyCurves(l.inputCurves,
                                                 applyMatrix3x3(l.matrix, input))),
                 LAMBDA v : clampValues(applyCurves(l.outputCurves, v)))

\* as many zeros as the input has components
ApplyLut16_inputZeros(l, input) ==
    IF Len(input) # l.inputChannels THEN zeroValues(Len(input))
    ELSE andThen(applyCLUTUniform(l, applyCurves(l.inputCurves,
                                                 applyMatrix3x3(l.matrix, input))),
                 LAMBDA v : clampValues(applyCurves(l.outputCurves, v)))

ApplyLut16(l, input) ==
    IF Len(input) # l.inputChannels THEN zeroValues(l.outputChannels)
    ELSE andThen(applyCLUTUniform(l, applyCurves(l.inputCurves,
                                                 applyMatrix3x3(l.matrix, input))),
                 LAMBDA v : clampValues(applyCurves(l.outputCurves, v)))

\* the order of the last three stages reversed
ApplyLutAToB_matrixLast(l, input) ==
    IF Len(input) # l.inputChannels THEN zeroValues(l.outputChannels)
    ELSE andThen(applyCLUT(l, applyCurves(l.aCurves, input)),
                 LAMBDA v : clampValues(
                     applyCurves(l.mCurves,
                         applyMatrix3x4(l.matrix, applyCurves(l.bCurves, v)))))

ApplyLutAToB(l, input) ==
    IF Len(input) # l.inputChannels THEN zeroValues(l.outputChannels)
    ELSE andThen(applyCLUT(l, applyCurves(l.aCurves, input)),
                 LAMBDA v : clampValues(
                     applyCurves(l.bCurves,
                         applyMatrix3x4(l.matrix, applyCurves(l.mCurves, v)))))

ApplyLutBToA(l, input) ==
    IF Len(input) # l.inputChannels THEN zeroValues(l.outputChannels)
    ELSE andThen(applyCLUT(l, applyCurves(l.mCurves,
                                          applyMatrix3x4(l.matrix,
                                                         applyCurves(l.bCurves, input)))),
                 LAMBDA v : clampValues(applyCurves(l.aCurves, v)))

\* Lut.Apply, dispatched on the concrete type
ApplyLut(l, input) ==
    CASE l.kind = "Lut8" -> ApplyLut8(l, input)
      [] l.kind = "Lut16" -> ApplyLut16(l, input)
      [] l.kind = "LutAToB" -> ApplyLutAToB(l, input)
      [] l.kind = "LutBToA" -> ApplyLutBToA(l, input)

----------------------------------------------------------------------------
(* The mAB / mBA codec: lut.go.  A Lut is a record of the struct's fields; *)
(* gridPoints is a sequence, <<>> for a nil slice.                         *)

nilLut == [nil |-> TRUE]

lutResult(l, e) == [lut |-> l, err |-> e]

\* the bytes of a panicking Encode: no bytes at all come back
encodePanicked == <<-1>>

mAB == <<109, 65, 66, 32>>
mBA == <<109, 66, 65, 32>>

\* (n + 3) &^ 3
align4(n) == ((n + 3) \div 4) * 4

\* 1 << 29
maxSize_29 == <<8192, 0>>

\* const maxSize = 1 << 30, as a uint64 of <<high 48 bits, low 16 bits>>
maxSize == <<16384, 0>>

\* size *= uint64(g) for a size of at most maxSize and 0 <= g < 2^15: the
\* 64-bit product, which stays below 2^46
mul64(size, g) ==
    LET lo == size[2] * g
    IN  <<size[1] * g + (lo \div 65536), lo % 65536>>

\* the loop of computeCLUTSize from gridPoints[i] on; u32Zero for return 0
RECURSIVE clutProduct(_, _, _)
clutProduct(gridPoints, i, size) ==
    IF i > Len(gridPoints) THEN size
    ELSE IF u32Gt(mul64(size, gridPoints[i]), maxSize) THEN u32Zero
    ELSE clutProduct(gridPoints, i + 1, mul64(size, gridPoints[i]))

computeCLUTSize(gridPoints, outputChannels) ==
    LET size == mul64(clutProduct(gridPoints, 1, <<0, 1>>), outputChannels)
    IN  IF u32Gt(size, maxSize) THEN 0 ELSE size[1] * 65536 + size[2]

\* the samples of encodeCLUT: byte(clamp(v, 0, 1) * 255.0) or
\* uint16(clamp(v, 0, 1) * 65535.0) for each of clut[lo .. hi]
RECURSIVE clutBytes(_, _, _, _)
clutBytes(clut, precision, lo, hi) ==
    IF lo > hi THEN <<>>
    ELSE IF lo = hi
    THEN IF precision = 1
         THEN <<truncInt(rMul(clamp(clut[lo], rZero, rOne), <<255, 1>>))>>
         ELSE uint16Bytes(truncInt(rMul(clamp(clut[lo], rZero, rOne), <<65535, 1>>)))
    ELSE clutBytes(clut, precision, lo, (lo + hi) \div 2)
         \o clutBytes(clut, precision, ((lo + hi) \div 2) + 1, hi)

\* a precision other than 1 is written as 2; a clut longer than the size
\* that the grid gives is written past the end of buf
encodeCLUT(gridPoints, outputChannels, clut, precision) ==
    LET size == computeCLUTSize(gridPoints, outputChannels)
        p == IF precision # 1 THEN 2 ELSE 1
    IN  IF Len(clut) > size THEN encodePanicked
        ELSE [i \in 1..16 |-> IF i <= Len(gridPoints) THEN gridPoints[i] % 256 ELSE 0]
             \o <<p, 0, 0, 0>>
             \o clutBytes(clut, p, 1, Len(clut))
             \o zeros((size - Len(clut)) * p)

\* curves[i].Encode(), or the identity curve where curves has no curve i,
\* each padded to a multiple of 4 bytes
RECURSIVE encodeCurves(_, _, _)
encodeCurves(curves, i, count) ==
    IF i > count THEN <<>>
    ELSE LET encoded == IF i <= Len(curves.v) /\ curves.v[i] # nilCurve
                          THEN EncodeCurve(curves.v[i])
                          ELSE EncodeCurve(mkCurve(rOne, 0, nilSlice, nilSlice))
         IN  encoded \o zeros(align4(Len(encoded)) - Len(encoded))
             \o encodeCurves(curves, i + 1, count)

\* matrix12 := make([]float64, 12); copy(matrix12, matrix); putS15Fixed16 of each
matrixBytes(matrix) ==
    LET RECURSIVE from(_)
        from(i) == IF i > 12 THEN <<>>
                   ELSE s15Fixed16Bytes(IF i <= Len(matrix) THEN matrix[i] ELSE rZero)
                        \o from(i + 1)
    IN  from(1)

\* buf grown with zeros up to offset, then the section
section(buf, offset, data) == buf \o zeros(offset - Len(buf)) \o data

\* the sections B, matrix, M, CLUT, A of encodeLutAB in the order of their
\* offsets: has[i] is the test that guards section i, data[i] its bytes
\* (bCurveData, the 48 bytes of the matrix, mCurveData, clutData, aCurveData)
sectionsOf(l) ==
    [has |-> << Len(l.bCurves.v) > 0,
                Len(l.matrix.v) >= 9,
                Len(l.mCurves.v) > 0,
                ~l.clut.nil /\ Len(l.gridPoints) > 0,
                Len(l.aCurves.v) > 0 >>,
     data |-> << IF Len(l.bCurves.v) > 0
                 THEN encodeCurves(l.bCurves, 1, IF l.kind = "LutBToA"
                                                 THEN l.inputChannels
                                                 ELSE l.outputChannels)
                 ELSE <<>>,
                 IF Len(l.matrix.v) >= 9 THEN matrixBytes(l.matrix.v) ELSE <<>>,
                 IF Len(l.mCurves.v) > 0 THEN encodeCurves(l.mCurves, 1, 3) ELSE <<>>,
                 IF ~l.clut.nil /\ Len(l.gridPoints) > 0
                 THEN encodeCLUT(l.gridPoints, l.outputChannels, l.clut.v,
                                 l.clutPrecision)
                 ELSE <<>>,
                 IF Len(l.aCurves.v) > 0
                 THEN encodeCurves(l.aCurves, 1, IF l.kind = "LutBToA"
                                                 THEN l.outputChannels
                                                 ELSE l.inputChannels)
                 ELSE <<>> >>]

\* bCurveOffset, matrixOffset, mCurveOffset, clutOffset, aCurveOffset and
\* the final offset: a section that is present starts at align4(offset)
\* (the offset 32 of B is aligned already), one left out has offset 0
RECURSIVE sectionOffsets(_, _, _)
sectionOffsets(s, i, offset) ==
    IF i > 5 THEN <<offset>>
    ELSE IF s.has[i]
    THEN <<align4(offset)>>
         \o sectionOffsets(s, i + 1, align4(offset) + Len(s.data[i]))
    ELSE <<0>> \o sectionOffsets(s, i + 1, offset)

\* the offsets of the B and of the A curves in each other's place
lutHeader_swapped(l, offsets) ==
    (IF l.kind = "LutBToA" THEN mBA ELSE mAB) \o zeros(4)
    \o <<l.inputChannels % 256, l.outputChannels % 256, 0, 0>>
    \o uint32Bytes(fromInt(offsets[5]))
    \o uint32Bytes(fromInt(offsets[2]))
    \o uint32Bytes(fromInt(offsets[3]))
    \o uint32Bytes(fromInt(offsets[4]))
    \o uint32Bytes(fromInt(offsets[1]))

\* the signature, the channel counts and the five offsets
lutHeader(l, offsets) ==
    (IF l.kind = "LutBToA" THEN mBA ELSE mAB) \o zeros(4)
    \o <<l.inputChannels % 256, l.outputChannels % 256, 0, 0>>
    \o uint32Bytes(fromInt(offsets[1]))
    \o uint32Bytes(fromInt(offsets[2]))
    \o uint32Bytes(fromInt(offsets[3]))
    \o uint32Bytes(fromInt(offsets[4]))
    \o uint32Bytes(fromInt(offsets[5]))

\* copy(buf[offset:], data) for the sections i.. that are present
RECURSIVE copySections(_, _, _, _)
copySections(buf, s, offsets, i) ==
    IF i > 5 THEN buf
    ELSE copySections(IF s.has[i] THEN section(buf, offsets[i], s.data[i]) ELSE buf,
                      s, offsets, i + 1)

\* buf := make([]byte, align4(offset)), the header and the sections
writeSections(l, s, offsets) ==
    section(copySections(lutHeader(l, offsets), s, offsets, 1),
            align4(offsets[6]), <<>>)

encodeSections(l, s) ==
    IF s.data[4] = encodePanicked THEN encodePanicked
    ELSE writeSections(l, s, sectionOffsets(s, 1, 32))

\* Encode of LutAToB and of LutBToA (isBToA): the sections B, matrix, M,
\* CLUT, A in this order, each at the next multiple of 4, behind a header
\* of 32 bytes that holds their offsets (0 for a section left out)
encodeLutAB(l) == encodeSections(l, sectionsOf(l))

\* the curve at pos and the curves behind it; size is the length that the
\* type and the count or function type at pos + 8 give, rounded up to 4
RECURSIVE decodeCurvesAtOffset(_, _, _)
decodeCurvesAtOffset(data, pos, numCurves) ==
    IF numCurves = 0 THEN [curves |-> <<>>, err |-> ErrNil]
    ELSE IF pos + 8 > Len(data) THEN [curves |-> <<>>, err |-> errInvalidTagData]
    ELSE IF SubSeq(data, pos + 1, pos + 4) \notin {curv, para}
    THEN [curves |-> <<>>, err |-> errUnexpectedType]
    ELSE IF pos + 12 > Len(data) THEN [curves |-> <<>>, err |-> errInvalidTagData]
    ELSE LET n == getUint32(data, pos + 8)
             funcType == getUint16(data, pos + 8)
             size == IF SubSeq(data, pos + 1, pos + 4) = curv
                     THEN (IF n[1] > 0 THEN Len(data) + 1 ELSE align4(12 + n[2] * 2))
                     ELSE align4(12 + numParamsOf(IF funcType < 4 THEN funcType ELSE 4) * 4)
         IN  IF pos + size > Len(data)
             THEN [curves |-> <<>>, err |-> errInvalidTagData]
             ELSE LET first == DecodeCurve(SubSeq(data, pos + 1, pos + size))
                      others == decodeCurvesAtOffset(data, pos + size, numCurves - 1)
                  IN  IF first.err # ErrNil THEN [curves |-> <<>>, err |-> first.err]
                      ELSE IF others.err # ErrNil THEN others
                      ELSE [curves |-> <<first.c>> \o others.curves, err |-> ErrNil]

\* |m[i] - identity[i]| <= 1e-6 for each of the 12 values
isIdentityMatrix3x4(m) ==
    /\ Len(m) = 12
    /\ \A i \in 1..12 :
           LET d == rSub(m[i], IF i \in {1, 5, 9} THEN rOne ELSE rZero)
           IN  abs(d[1]) <= d[2] \div 1000000

\* nil for the identity
decodeMatrix3x4(data, offset) ==
    IF offset + 48 > Len(data) THEN [matrix |-> nilSlice, err |-> errInvalidTagData]
    ELSE LET matrix == [i \in 1..12 |-> getS15Fixed16(data, offset + (i - 1) * 4)]
         IN  [matrix |-> IF isIdentityMatrix3x4(matrix) THEN nilSlice ELSE slice(matrix),
              err |-> ErrNil]

\* allocated tells whether make([]float64, size) was reached;
\* len(data) < clutDataStart + size * precision is decided by a division,
\* as the product of a size near 2^30 is none that TLC can hold
decodeCLUT(data, offset, inputChannels, outputChannels) ==
    LET failed == [gridPoints |-> <<>>, clut |-> nilSlice, precision |-> 0,
                   err |-> errInvalidTagData, allocated |-> FALSE]
    IN  IF offset + 20 > Len(data) THEN failed
        ELSE LET gridPoints == [i \in 1..inputChannels |->
                                   IF At(data, offset + i - 1) = 0 THEN 1
                                   ELSE At(data, offset + i - 1)]
                 precision == At(data, offset + 16)
                 size == computeCLUTSize(gridPoints, outputChannels)
             IN  IF size = 0 THEN failed
                 ELSE IF precision \notin {1, 2} THEN failed
                 ELSE IF size > (Len(data) - offset - 20) \div precision THEN failed
                 ELSE [gridPoints |-> gridPoints,
                       clut |-> slice([i \in 1..size |->
                                   IF precision = 1
                                   THEN rat(At(data, offset + 20 + i - 1), 255)
                                   ELSE rat(getUint16(data, offset + 20 + (i - 1) * 2),
                                            65535)]),
                       precision |-> precision, err |-> ErrNil, allocated |-> TRUE]

\* an offset of the header as an int; the tags of the model are shorter
\* than 65536 bytes, so an offset with a high half lies behind the end
offsetAt(data, o) ==
    IF getUint32(data, o)[1] > 0 THEN Len(data) + 1 ELSE getUint32(data, o)[2]

\* the sections that decodeLutAToB and decodeLutBToA decode, in the order
\* B, A, matrix, M, CLUT; a zero offset leaves the section "absent"
lutParts(data, kind) ==
    [b |-> IF getUint32(data, 12) = u32Zero
           THEN [curves |-> <<>>, err |-> "absent"]
           ELSE decodeCurvesAtOffset(data, offsetAt(data, 12),
                                     IF kind = "LutBToA" THEN At(data, 8)
                                     ELSE At(data, 9)),
     a |-> IF getUint32(data, 28) = u32Zero
           THEN [curves |-> <<>>, err |-> "absent"]
           ELSE decodeCurvesAtOffset(data, offsetAt(data, 28),
                                     IF kind = "LutBToA" THEN At(data, 9)
                                     ELSE At(data, 8)),
     x |-> IF getUint32(data, 16) = u32Zero
           THEN [matrix |-> nilSlice, err |-> "absent"]
           ELSE decodeMatrix3x4(data, offsetAt(data, 16)),
     m |-> IF getUint32(data, 20) = u32Zero
           THEN [curves |-> <<>>, err |-> "absent"]
           ELSE decodeCurvesAtOffset(data, offsetAt(data, 20), 3),
     c |-> IF getUint32(data, 24) = u32Zero
           THEN [gridPoints |-> <<>>, clut |-> nilSlice, precision |-> 0,
                 err |-> "absent"]
           ELSE decodeCLUT(data, offsetAt(data, 24), At(data, 8), At(data, 9))]

\* a section that was decoded and failed
partFailed(r) == r.err \notin {ErrNil, "absent"}

\* lut.bCurves = curves, or the nil the field keeps
curvesOf(r) == IF r.err = "absent" THEN nilSlice ELSE slice(r.curves)

\* the first error in the order B, A, matrix, M, CLUT, or the LUT
lutOfParts(kind, inputChannels, outputChannels, parts) ==
    IF partFailed(parts.b) THEN lutResult(nilLut, parts.b.err)
    ELSE IF partFailed(parts.a) THEN lutResult(nilLut, parts.a.err)
    ELSE IF partFailed(parts.x) THEN lutResult(nilLut, parts.x.err)
    ELSE IF partFailed(parts.m) THEN lutResult(nilLut, parts.m.err)
    ELSE IF partFailed(parts.c) THEN lutResult(nilLut, parts.c.err)
    ELSE lutResult([kind |-> kind, inputChannels |-> inputChannels,
                    outputChannels |-> outputChannels,
                    aCurves |-> curvesOf(parts.a), gridPoints |-> parts.c.gridPoints,
                    clut |-> parts.c.clut, clutPrecision |-> parts.c.precision,
                    mCurves |-> curvesOf(parts.m), matrix |-> parts.x.matrix,
                    bCurves |-> curvesOf(parts.b)], ErrNil)

\* decodeLutAToB and decodeLutBToA: they differ in the variant they build
\* and in the channel count that gives the number of A and of B curves
decodeLutAB(data, kind) ==
    IF Len(data) < 32 THEN lutResult(nilLut, errInvalidTagData)
    ELSE IF At(data, 8) = 0 \/ At(data, 9) = 0 \/ At(data, 8) > 15 \/ At(data, 9) > 15
    THEN lutResult(nilLut, errInvalidTagData)
    ELSE lutOfParts(kind, At(data, 8), At(data, 9), lutParts(data, kind))

\* the cases "mAB " and "mBA " and the default of the switch; no tag of
\* this model carries "mft1" or "mft2"
DecodeLut(data) ==
    IF Len(data) < 8 THEN lutResult(nilLut, errInvalidTagData)
    ELSE IF SubSeq(data, 1, 4) \in {mAB, mBA}
    THEN decodeLutAB(data, IF SubSeq(data, 1, 4) = mAB THEN "LutAToB" ELSE "LutBToA")
    ELSE lutResult(nilLut, errUnexpectedType)

----------------------------------------------------------------------------
(* The colour transform: transform.go.  A profile is the record of its PCS *)
(* and of TagData, a function from the signatures of the tags it holds to  *)
(* their bytes.                                                            *)

DeviceToPCS == "DeviceToPCS"
PCSToDevice == "PCSToDevice"

Perceptual == 0
RelativeColorimetric == 1
Saturation == 2
AbsoluteColorimetric == 3

PCSXYZSpace == "XYZ "
PCSLabSpace == "Lab "

profileTypeUnknown == "Unknown"
profileTypeMatrixTRC == "Matrix/TRC"
profileTypeGrayTRC == "Gray TRC"
profileTypeLut == "LUT"

errUnsupportedType == "icc: unsupported profile type"
errMissingLut == "icc: missing LUT tag"
errSingularMatrix == "icc: singular colour matrix"

nilTransform == [nil |-> TRUE]

\* _, ok := p.TagData[tag]
hasTag(p, tag) == tag \in DOMAIN p.TagData

\* the gray TRC ahead of the LUT tags
detectProfileType_grayFirst(p) ==
    IF hasTag(p, "kTRC") THEN profileTypeGrayTRC
    ELSE IF \E tag \in {"A2B0", "A2B1", "A2B2", "B2A0", "B2A1", "B2A2"} : hasTag(p, tag)
    THEN profileTypeLut
    ELSE IF \A tag \in {"rXYZ", "gXYZ", "bXYZ", "rTRC", "gTRC", "bTRC"} : hasTag(p, tag)
    THEN profileTypeMatrixTRC
    ELSE profileTypeUnknown

detectProfileType(p) ==
    IF hasTag(p, "A2B0") THEN profileTypeLut
    ELSE IF hasTag(p, "A2B1") THEN profileTypeLut
    ELSE IF hasTag(p, "A2B2") THEN profileTypeLut
    ELSE IF hasTag(p, "B2A0") THEN profileTypeLut
    ELSE IF hasTag(p, "B2A1") THEN profileTypeLut
    ELSE IF hasTag(p, "B2A2") THEN profileTypeLut
    ELSE IF /\ hasTag(p, "rXYZ") /\ hasTag(p, "gXYZ") /\ hasTag(p, "bXYZ")
            /\ hasTag(p, "rTRC") /\ hasTag(p, "gTRC") /\ hasTag(p, "bTRC")
    THEN profileTypeMatrixTRC
    ELSE IF hasTag(p, "kTRC") THEN profileTypeGrayTRC
    ELSE profileTypeUnknown

parseXYZ(data) ==
    IF Len(data) < 20
    THEN [xyz |-> <<rZero, rZero, rZero>>, err |-> errInvalidTagData]
    ELSE IF SubSeq(data, 1, 4) # <<88, 89, 90, 32>>
    THEN [xyz |-> <<rZero, rZero, rZero>>, err |-> errUnexpectedType]
    ELSE [xyz |-> <<getS15Fixed16(data, 8), getS15Fixed16(data, 12),
                    getS15Fixed16(data, 16)>>,
          err |-> ErrNil]

\* a*b - c*d
cross(a, b, c, d) == rSub(rMul(a, b), rMul(c, d))

\* nil for a determinant of 0
invertMatrix3x3(m) ==
    LET det == rAdd(rSub(rMul(m[1], cross(m[5], m[9], m[6], m[8])),
                         rMul(m[2], cross(m[4], m[9], m[6], m[7]))),
                    rMul(m[3], cross(m[4], m[8], m[5], m[7])))
        invDet == rDiv(rOne, det)
    IN  IF Len(m) # 9 \/ det = rZero THEN nilSlice
        ELSE slice(<<rMul(cross(m[5], m[9], m[6], m[8]), invDet),
                     rMul(cross(m[3], m[8], m[2], m[9]), invDet),
                     rMul(cross(m[2], m[6], m[3], m[5]), invDet),
                     rMul(cross(m[6], m[7], m[4], m[9]), invDet),
                     rMul(cross(m[1], m[9], m[3], m[7]), invDet),
                     rMul(cross(m[3], m[4], m[1], m[6]), invDet),
                     rMul(cross(m[4], m[8], m[5], m[7]), invDet),
                     rMul(cross(m[2], m[7], m[1], m[8]), invDet),
                     rMul(cross(m[1], m[5], m[2], m[4]), invDet)>>)

\* the transform that an init function leaves behind, with its error
initResult(t, e) == [t |-> t, err |-> e]

\* the matrix of the three columns, row by row
columnsMatrix(rXYZ, gXYZ, bXYZ) ==
    <<rXYZ[1], gXYZ[1], bXYZ[1], rXYZ[2], gXYZ[2], bXYZ[2], rXYZ[3], gXYZ[3], bXYZ[3]>>

\* the inverse is required in both directions
matrixTRCOf_anyDirection(t, matrix, matrixInv, rTRC, gTRC, bTRC) ==
    IF matrixInv.nil THEN initResult(t, errSingularMatrix)
    ELSE IF rTRC.err # ErrNil THEN initResult(t, rTRC.err)
    ELSE IF gTRC.err # ErrNil THEN initResult(t, gTRC.err)
    ELSE IF bTRC.err # ErrNil THEN initResult(t, bTRC.err)
    ELSE initResult([t EXCEPT !.matrix = slice(matrix), !.matrixInv = matrixInv,
                              !.trc = <<rTRC.c, gTRC.c, bTRC.c>>],
                    ErrNil)

\* the inverse for PCSToDevice, then the curves
matrixTRCOf(t, matrix, matrixInv, rTRC, gTRC, bTRC) ==
    IF t.direction = PCSToDevice /\ matrixInv.nil
    THEN initResult(t, errSingularMatrix)
    ELSE IF rTRC.err # ErrNil THEN initResult(t, rTRC.err)
    ELSE IF gTRC.err # ErrNil THEN initResult(t, gTRC.err)
    ELSE IF bTRC.err # ErrNil THEN initResult(t, bTRC.err)
    ELSE initResult([t EXCEPT !.matrix = slice(matrix), !.matrixInv = matrixInv,
                              !.trc = <<rTRC.c, gTRC.c, bTRC.c>>],
                    ErrNil)

matrixTRCOfMatrix(t, matrix, rTRC, gTRC, bTRC) ==
    matrixTRCOf(t, matrix,
                IF t.direction = PCSToDevice THEN invertMatrix3x3(matrix) ELSE nilSlice,
                rTRC, gTRC, bTRC)

matrixTRCOfTags(t, rXYZ, gXYZ, bXYZ, rTRC, gTRC, bTRC) ==
    IF rXYZ.err # ErrNil THEN initResult(t, rXYZ.err)
    ELSE IF gXYZ.err # ErrNil THEN initResult(t, gXYZ.err)
    ELSE IF bXYZ.err # ErrNil THEN initResult(t, bXYZ.err)
    ELSE matrixTRCOfMatrix(t, columnsMatrix(rXYZ.xyz, gXYZ.xyz, bXYZ.xyz),
                           rTRC, gTRC, bTRC)

\* trcInv holds the very curves of trc
initMatrixTRC(t) ==
    matrixTRCOfTags(t, parseXYZ(t.profile.TagData["rXYZ"]),
                    parseXYZ(t.profile.TagData["gXYZ"]),
                    parseXYZ(t.profile.TagData["bXYZ"]),
                    DecodeCurve(t.profile.TagData["rTRC"]),
                    DecodeCurve(t.profile.TagData["gTRC"]),
                    DecodeCurve(t.profile.TagData["bTRC"]))

grayTRCOf(t, grayTRC) ==
    IF grayTRC.err # ErrNil THEN initResult(t, grayTRC.err)
    ELSE initResult([t EXCEPT !.grayTRC = grayTRC.c], ErrNil)

\* grayTRCInv holds the very curve of grayTRC
initGrayTRC(t) == grayTRCOf(t, DecodeCurve(t.profile.TagData["kTRC"]))

\* no fall back to the tag of the intent 0
lutTag_noFallback(p, direction, intent) ==
    CASE intent = Perceptual -> IF direction = DeviceToPCS THEN "A2B0" ELSE "B2A0"
      [] intent \in {RelativeColorimetric, AbsoluteColorimetric} ->
             IF direction = DeviceToPCS THEN "A2B1" ELSE "B2A1"
      [] intent = Saturation -> IF direction = DeviceToPCS THEN "A2B2" ELSE "B2A2"
      [] OTHER -> ""

\* the tag that initLut reads: the one of the direction and the intent, or
\* the one of the intent 0 where the profile has not got that; "" is the
\* zero TagType, which the switch leaves in place for an intent above 3
lutTag(p, direction, intent) ==
    LET byIntent ==
            CASE intent = Perceptual ->
                     IF direction = DeviceToPCS THEN "A2B0" ELSE "B2A0"
              [] intent \in {RelativeColorimetric, AbsoluteColorimetric} ->
                     IF direction = DeviceToPCS THEN "A2B1" ELSE "B2A1"
              [] intent = Saturation ->
                     IF direction = DeviceToPCS THEN "A2B2" ELSE "B2A2"
              [] OTHER -> ""
    IN  IF hasTag(p, byIntent) THEN byIntent
        ELSE IF direction = DeviceToPCS THEN "A2B0" ELSE "B2A0"

lutOf(t, r) ==
    IF r.err # ErrNil THEN initResult(t, r.err)
    ELSE initResult([t EXCEPT !.lut = r.lut], ErrNil)

initLut(t) ==
    IF ~hasTag(t.profile, lutTag(t.profile, t.direction, t.intent))
    THEN initResult(t, errMissingLut)
    ELSE lutOf(t, DecodeLut(t.profile.TagData[lutTag(t.profile, t.direction,
                                                      t.intent)]))

\* the white point of the tag "wtpt" if that parses, else the zero value;
\* D50 for a profile without the tag
whitePointOf(p) ==
    IF hasTag(p, "wtpt")
    THEN (IF parseXYZ(p.TagData["wtpt"]).err = ErrNil
          THEN parseXYZ(p.TagData["wtpt"]).xyz
          ELSE <<rZero, rZero, rZero>>)
    ELSE d50WhitePoint

\* the Transform before the tags are read
newTransform(p, dir, intent) ==
    [profile |-> p, direction |-> dir, intent |-> intent,
     profileType |-> detectProfileType(p),
     matrix |-> nilSlice, matrixInv |-> nilSlice,
     trc |-> <<nilCurve, nilCurve, nilCurve>>, grayTRC |-> nilCurve,
     lut |-> nilLut, whitePoint |-> <<rZero, rZero, rZero>>]

initByType(t) ==
    CASE t.profileType = profileTypeMatrixTRC -> initMatrixTRC(t)
      [] t.profileType = profileTypeGrayTRC -> initGrayTRC(t)
      [] t.profileType = profileTypeLut -> initLut(t)
      [] OTHER -> initResult(t, errUnsupportedType)

transformOf(p, r) ==
    IF r.err # ErrNil THEN initResult(nilTransform, r.err)
    ELSE initResult([r.t EXCEPT !.whitePoint = whitePointOf(p)], ErrNil)

NewTransform(p, dir, intent) == transformOf(p, initByType(newTransform(p, dir, intent)))

\* the outcome of Apply: the output, and the transform with the inverse
\* tables that Invert has cached in its curves
applyResult(t, out) == [t |-> t, out |-> out]

\* the three curves inverted at the clamped components of lin
invertTRC(t, r, g, b) ==
    applyResult([t EXCEPT !.trc = <<r.c, g.c, b.c>>], clampValues(<<r.y, g.y, b.y>>))

invertLinear(t, lin) ==
    invertTRC(t, Invert(t.trc[1], clamp(lin[1], rZero, rOne)),
              Invert(t.trc[2], clamp(lin[2], rZero, rOne)),
              Invert(t.trc[3], clamp(lin[3], rZero, rOne)))

applyMatrixTRC(t, input) ==
    IF Len(input) # 3 THEN applyResult(t, zeroValues(3))
    ELSE IF t.direction = DeviceToPCS
    THEN applyResult(t, applyMatrix3x3(t.matrix, <<Evaluate(t.trc[1], input[1]),
                                                  Evaluate(t.trc[2], input[2]),
                                                  Evaluate(t.trc[3], input[3])>>))
    ELSE invertLinear(t, applyMatrix3x3(t.matrixInv, input))

\* []float64{t.grayTRCInv.Invert(...)}
invertGray(t, r) == applyResult([t EXCEPT !.grayTRC = r.c], <<r.y>>)

\* y normalised by the Y of the white point
normalisedY(t, y) == IF t.whitePoint[2] # rZero THEN rDiv(y, t.whitePoint[2]) ELSE y

\* XYZ for gray is the white point scaled by y
scaledWhite(t, y) ==
    applyResult(t, <<rMul(t.whitePoint[1], y), rMul(t.whitePoint[2], y),
                     rMul(t.whitePoint[3], y)>>)

\* an input of other than one value yields make([]float64, 1), whatever
\* the direction
applyGrayTRC(t, input) ==
    IF Len(input) # 1 THEN applyResult(t, zeroValues(1))
    ELSE IF t.direction = DeviceToPCS
    THEN scaledWhite(t, Evaluate(t.grayTRC, input[1]))
    ELSE invertGray(t, Invert(t.grayTRC,
                              clamp(normalisedY(t, IF Len(input) >= 2 THEN input[2]
                                                   ELSE input[1]),
                                    rZero, rOne)))

applyLut(t, input) ==
    IF t.lut = nilLut THEN applyResult(t, input) ELSE applyResult(t, ApplyLut(t.lut, input))

Apply(t, input) ==
    CASE t.profileType = profileTypeMatrixTRC -> applyMatrixTRC(t, input)
      [] t.profileType = profileTypeGrayTRC -> applyGrayTRC(t, input)
      [] t.profileType = profileTypeLut -> applyLut(t, input)
      [] OTHER -> applyResult(t, input)

\* the integer cube root
icbrt(n) == CHOOSE r \in 0..n : r * r * r <= n /\ (r + 1) * (r + 1) * (r + 1) > n

\* f of xyzToLab: math.Pow(x, 1.0/3.0) above the threshold (6/29)^3, on
\* cubes of rationals, and the linear part below it
labF(x) ==
    IF rLt(<<216, 24389>>, x) THEN <<icbrt(x[1]), icbrt(x[2])>>
    ELSE rAdd(rMul(x, <<841, 108>>), <<4, 29>>)

\* a white point component of 0 is taken from D50
xyzToLab(X, Y, Z, white) ==
    LET w == [i \in 1..3 |-> IF white[i] = rZero THEN d50WhitePoint[i] ELSE white[i]]
        fx == labF(rDiv(X, w[1]))
        fy == labF(rDiv(Y, w[2]))
        fz == labF(rDiv(Z, w[3]))
    IN  <<rSub(rMul(<<116, 1>>, fy), <<16, 1>>), rMul(<<500, 1>>, rSub(fx, fy)),
          rMul(<<200, 1>>, rSub(fy, fz))>>

normaliseLab(lab) ==
    IF Len(lab) < 3 THEN lab
    ELSE <<rDiv(lab[1], <<100, 1>>), rDiv(rAdd(lab[2], <<128, 1>>), <<255, 1>>),
           rDiv(rAdd(lab[3], <<128, 1>>), <<255, 1>>)>>

\* a transform of the other direction returns nil, the vector of no values
FromXYZ(t, X, Y, Z) ==
    IF t.direction # PCSToDevice THEN applyResult(t, <<>>)
    ELSE Apply(t, IF t.profile.PCS # PCSLabSpace THEN <<X, Y, Z>>
                  ELSE IF t.profileType = profileTypeLut
                  THEN normaliseLab(xyzToLab(X, Y, Z, t.whitePoint))
                  ELSE xyzToLab(X, Y, Z, t.whitePoint))

denormaliseLab(lab) ==
    IF Len(lab) < 3 THEN lab
    ELSE <<rMul(lab[1], <<100, 1>>), rSub(rMul(lab[2], <<255, 1>>), <<128, 1>>),
           rSub(rMul(lab[3], <<255, 1>>), <<128, 1>>)>>

\* the inverse f of labToXYZ: the cube above the threshold 6/29, else
\* (f - 16/116) * 108/841
labFInv(f) ==
    IF rLt(<<6, 29>>, f) THEN rMul(f, rMul(f, f))
    ELSE rMul(rSub(f, <<4, 29>>), <<108, 841>>)

\* xr, yr, zr scaled by the white point as it is
scaleByWhite(fx, fy, fz, white) ==
    <<rMul(labFInv(fx), white[1]), rMul(labFInv(fy), white[2]),
      rMul(labFInv(fz), white[3])>>

labFy(lab) == rDiv(rAdd(lab[1], <<16, 1>>), <<116, 1>>)

labToXYZ(lab, white) ==
    IF Len(lab) < 3 THEN <<rZero, rZero, rZero>>
    ELSE scaleByWhite(rAdd(rDiv(lab[2], <<500, 1>>), labFy(lab)), labFy(lab),
                      rSub(labFy(lab), rDiv(lab[3], <<200, 1>>)), white)

\* ToXYZ past Apply, on its result
toXYZOf(t, r) ==
    IF t.profile.PCS = PCSLabSpace
    THEN labToXYZ(IF t.profileType = profileTypeLut /\ Len(r) >= 3
                  THEN denormaliseLab(r) ELSE r,
                  t.whitePoint)
    ELSE IF Len(r) >= 3 THEN <<r[1], r[2], r[3]>>
    ELSE <<rZero, rZero, rZero>>

\* X, Y, Z as one vector; a transform of the other direction returns zeros
toXYZResult(t, r) == applyResult(r.t, toXYZOf(t, r.out))

ToXYZ(t, device) ==
    IF t.direction # DeviceToPCS THEN applyResult(t, <<rZero, rZero, rZero>>)
    ELSE toXYZResult(t, Apply(t, device))

----------------------------------------------------------------------------
(* The client: the values it builds profiles from and feeds to Decode *)

\* 0 (unset), 3.15.15.FFFF (the largest version below 4.0.0), 4.0.0
\* 0 and AbsoluteColorimetric
Intents == {u32Zero, <<0, 3>>}

\* <<Version, Flags, RenderingIntent>> of the profiles a client starts from
Headers ==
    {<<u32Zero, <<0, 1>>, <<0, 3>>>>,
     <<<<1023, 65535>>, <<0, 1>>, <<0, 3>>>>,
     <<Version4_0_0, <<0, 1>>, <<0, 3>>>>}

\* 0x00000100 and "chrm" (0x6368726D)
TagTypes == {<<0, 256>>, <<25448, 29293>>}

TagDatas == {<<0, 0, 1, 0>>, <<0, 0, 0, 0, 7>>, <<9>>}

ClientProfile(version, flags, intent) ==
    [PreferredCMMType   |-> <<27747, 28019>>,
     Version            |-> version,
     Class              |-> <<28014, 29810>>,
     ColorSpace         |-> <<21063, 16928>>,
     PCS                |-> <<22617, 23072>>,
     CreationDate       |-> mkTime(2020, 1, 2, 3, 4, 5),
     PrimaryPlatform    |-> <<16720, 20556>>,
     Flags              |-> flags,
     DeviceManufacturer |-> <<0, 17>>,
     DeviceModel        |-> <<0, 18>>,
     DeviceAttributes   |-> <<<<0, 19>>, <<32768, 20>>>>,
     RenderingIntent    |-> intent,
     Creator            |-> <<65535, 65535>>,
     CheckSum           |-> CheckSumMissing,
     TagData            |-> <<>>]

\* the orders in which a range loop can visit the keys of a map
Orders(keys) ==
    {o \in [1..Cardinality(keys) -> keys] : \A i, j \in DOMAIN o : i # j => o[i] # o[j]}

\* 12 raw date/time bytes
rawDate(y, mo, d, h, mi, s) ==
    <<y \div 256, y % 256, 0, mo, 0, d, 0, h, 0, mi, 0, s>>

RawDates ==
    {rawDate(3000, 12, 31, 23, 59, 60),
     rawDate(2021, 2, 31, 23, 59, 61),
     rawDate(1969, 12, 31, 23, 59, 59)}

\* <<offset, value>>: words a client (or an attacker) overwrites in the bytes
PokeWords ==
    {<<8, u32Zero>>, <<36, <<24931, 0>>>>, <<84, <<1, 2>>>>,
     <<128, <<0, 3>>>>, <<128, <<65535, 65535>>>>,
     <<132, <<25448, 29293>>>>,
     <<136, <<0, 132>>>>,
     <<140, <<0, 3>>>>, <<140, <<0, 8>>>>, <<140, <<65535, 65533>>>>}

----------------------------------------------------------------------------
(* The state machines share one list of variables; each leaves the others' *)
(* variables at these values.                                              *)

idleProf ==
    /\ prof = nilProfile
    /\ wire = <<>>
    /\ decIn = <<>>
    /\ err = ErrNil
    /\ lastOp = "new"
    /\ pokes = 0

idleCurve ==
    /\ curve = mkCurve(rZero, 0, nilSlice, nilSlice)
    /\ arg = rZero
    /\ result = rZero
    /\ curveOp = "new"

idleCodec ==
    /\ curveData = <<>>
    /\ decoded = "none"

idleLut ==
    /\ lut = "none"
    /\ lutIn = <<>>
    /\ lutOut = <<>>
    /\ lutOp = "new"
    /\ lutData = <<>>
    /\ lutDecoded = "none"

idleClut ==
    /\ clutIn = "none"
    /\ clutBlock = <<>>
    /\ clutOut = "none"
    /\ clutOp = "new"

idleTransform ==
    /\ xfIn = "none"
    /\ xf = "none"
    /\ xfArg = <<>>
    /\ xfOut = <<>>
    /\ xfOp = "new"

idleRace ==
    /\ sharedCurve = "none"
    /\ calls = <<>>

idleShare ==
    /\ shProfile = "none"
    /\ shHeap = <<>>
    /\ shXf = <<>>
    /\ shCalls = <<>>

idleBuild ==
    /\ bdTable = <<>>
    /\ bdPc = "idle"
    /\ bdI = 0
    /\ bdIdx = 0
    /\ bdEntry = rZero

idleDate ==
    /\ dtTime = zeroTime
    /\ dtBytes = <<>>
    /\ dtBack = zeroTime
    /\ dtOp = "idle"

----------------------------------------------------------------------------
(* The state machine *)

Init ==
    /\ idleLut
    /\ idleDate
    /\ idleBuild
    /\ idleShare
    /\ idleRace
    /\ idleTransform
    /\ idleClut
    /\ prof \in {ClientProfile(h[1], h[2], h[3]) : h \in Headers}
    /\ wire = <<>>
    /\ decIn = <<>>
    /\ err = ErrNil
    /\ lastOp = "new"
    /\ pokes = 0
    /\ idleCurve
    /\ idleCodec

\* p.TagData[tagType] = data, while the client builds its profile
SetTag(tagType, data) ==
    /\ lastOp \in {"new", "settag"}
    /\ Cardinality(DOMAIN prof.TagData \cup {tagType}) <= MaxTags
    /\ prof' = [prof EXCEPT !.TagData = (tagType :> data) @@ @]
    /\ lastOp' = "settag"
    /\ UNCHANGED <<wire, decIn, err, pokes>>
    /\ UNCHANGED notProf

\* encoded, err := p.Encode(), on a profile the client has built or decoded
DoEncode ==
    /\ lastOp \in {"new", "settag", "decode"}
    /\ \E order \in Orders(DOMAIN prof.TagData) :
        \E r \in {Encode(prof, order)} :
            /\ wire' = r.buf
            /\ err' = r.err
            /\ lastOp' = "encode"
            /\ UNCHANGED <<prof, decIn, pokes>>
            /\ UNCHANGED notProf

\* the bytes are edited between Encode and Decode
PokeWord(offset, value) ==
    /\ lastOp \in {"encode", "poke"}
    /\ pokes < MaxPokes
    /\ Len(wire) >= offset + 4
    /\ wire' = putUint32(wire, offset, value)
    /\ pokes' = pokes + 1
    /\ lastOp' = "poke"
    /\ UNCHANGED <<prof, decIn, err>>
    /\ UNCHANGED notProf

PokeDate(raw) ==
    /\ lastOp \in {"encode", "poke"}
    /\ pokes < MaxPokes
    /\ Len(wire) >= 36
    /\ wire' = copyAt(wire, 24, raw)
    /\ pokes' = pokes + 1
    /\ lastOp' = "poke"
    /\ UNCHANGED <<prof, decIn, err>>
    /\ UNCHANGED notProf

Truncate(n) ==
    /\ lastOp \in {"encode", "poke"}
    /\ pokes < MaxPokes
    /\ n >= 0
    /\ n < Len(wire)
    /\ wire' = SubSeq(wire, 1, n)
    /\ pokes' = pokes + 1
    /\ lastOp' = "poke"
    /\ UNCHANGED <<prof, decIn, err>>
    /\ UNCHANGED notProf

\* p, err := Decode(data), on bytes that come from Encode, edited or not;
\* Decode works on the caller's slice
DoDecode ==
    /\ lastOp \in {"encode", "poke"}
    /\ \E r \in {Decode(wire)} :
        /\ decIn' = wire
        /\ wire' = r.data
        /\ err' = r.err
        /\ prof' = IF r.err = ErrNil THEN r.p ELSE prof
        /\ lastOp' = "decode"
        /\ UNCHANGED pokes
        /\ UNCHANGED notProf

Next ==
    \/ \E t \in TagTypes, d \in TagDatas : SetTag(t, d)
    \/ DoEncode
    \/ \E w \in PokeWords : PokeWord(w[1], w[2])
    \/ \E raw \in RawDates : PokeDate(raw)
    \/ \E n \in {131, Len(wire) - 1} : Truncate(n)
    \/ DoDecode

Spec == Init /\ [][Next]_vars

TypeOK ==
    /\ lastOp \in {"new", "settag", "encode", "poke", "decode"}
    /\ pokes \in 0..MaxPokes
    /\ \A i \in DOMAIN wire : wire[i] \in 0..255

----------------------------------------------------------------------------
(* The client of a Curve: the curves it builds through the exported       *)
(* fields, and the values it evaluates and inverts                        *)

Gammas == {rZero, <<2, 1>>}

\* <<FuncType, Params>>: none, Y = X^2, Y = (2X - 1/2)^2 from X = 1/4 on,
\* and Y = X^2 from X = 1/4 on with Y = X/2 below
ParamChoices ==
    { <<0, nilSlice>>,
      <<0, slice(<< <<2, 1>> >>)>>,
      <<1, slice(<< <<2, 1>>, <<2, 1>>, <<-1, 2>> >>)>>,
      <<3, slice(<< <<2, 1>>, <<1, 1>>, <<0, 1>>, <<1, 2>>, <<1, 4>> >>)>> }

Tables ==
    { nilSlice, slice(<<>>), slice(<<65535>>), slice(<<0, 65535>>),
      slice(<<0, 21845, 65535>>) }

Curves == { mkCurve(g, pc[1], pc[2], t) : g \in Gammas, pc \in ParamChoices, t \in Tables }

EvaluateArgs == { <<-1, 2>>, <<0, 1>>, <<1, 4>>, <<1, 2>>, <<1, 1>>, <<3, 2>> }

InvertArgs == { <<-1, 4>>, <<0, 1>>, <<1, 4>>, <<1, 1>>, <<3, 2>> }

InitCurve ==
    /\ idleProf
    /\ idleDate
    /\ idleBuild
    /\ idleShare
    /\ idleRace
    /\ idleTransform
    /\ idleClut
    /\ idleLut
    /\ idleCodec
    /\ curve \in Curves
    /\ arg = rZero
    /\ result = rZero
    /\ curveOp = "new"

\* y := c.Evaluate(x)
DoEvaluate(x) ==
    /\ arg' = x
    /\ result' = Evaluate(curve, x)
    /\ curveOp' = "evaluate"
    /\ UNCHANGED curve
    /\ UNCHANGED notCurve

\* x := c.Invert(y)
DoInvert(y) ==
    /\ \E r \in {Invert(curve, y)} :
        /\ curve' = r.c
        /\ result' = r.y
    /\ arg' = y
    /\ curveOp' = "invert"
    /\ UNCHANGED notCurve

NextCurve ==
    \/ \E x \in EvaluateArgs : DoEvaluate(x)
    \/ \E y \in InvertArgs : DoInvert(y)

SpecCurve == InitCurve /\ [][NextCurve]_vars

----------------------------------------------------------------------------
(* The client of the curve codec: the curves it encodes, and the edits it  *)
(* makes to the bytes before decoding them                                 *)

\* Gamma only: the zero Curve, the identity, 2, 563/256 and 11/5
GammaCurves ==
    { mkCurve(g, 0, nilSlice, nilSlice) :
        g \in {rZero, rOne, <<2, 1>>, <<563, 256>>, <<11, 5>>} }

\* Table only
SampledCurves ==
    { mkCurve(rZero, 0, nilSlice, slice(t)) :
        t \in {<<>>, <<65535>>, <<0, 65535>>, <<0, 21845, 65535>>} }

\* FuncType and Params only: one curve of each type, a parameter that is
\* no s15Fixed16 number, a parameter list that is too short, and a function
\* type that does not exist
ParametricCurves ==
    { mkCurve(rZero, pc[1], slice(pc[2]), nilSlice) :
        pc \in { <<0, << <<2, 1>> >> >>,
                 <<1, << <<2, 1>>, <<2, 1>>, <<-1, 2>> >> >>,
                 <<2, << <<2, 1>>, <<1, 1>>, <<0, 1>>, <<1, 4>> >> >>,
                 <<3, << <<2, 1>>, <<1, 1>>, <<0, 1>>, <<1, 2>>, <<1, 4>> >> >>,
                 <<4, << <<2, 1>>, <<1, 1>>, <<0, 1>>, <<1, 2>>, <<1, 4>>,
                         <<-1, 65536>>, <<1, 8>> >> >>,
                 <<0, << <<1, 3>> >> >>,
                 <<1, << <<2, 1>> >> >>,
                 <<5, << <<2, 1>> >> >> } }

\* more than one representation set
MixedCurves ==
    { mkCurve(<<2, 1>>, 0, nilSlice, slice(<<0, 65535>>)),
      mkCurve(<<2, 1>>, 0, slice(<< <<2, 1>> >>), nilSlice),
      mkCurve(rZero, 0, slice(<< <<2, 1>> >>), slice(<<0, 65535>>)) }

CodecCurves == GammaCurves \cup SampledCurves \cup ParametricCurves \cup MixedCurves

InitCodec ==
    /\ idleProf
    /\ idleDate
    /\ idleBuild
    /\ idleShare
    /\ idleRace
    /\ idleTransform
    /\ idleClut
    /\ idleLut
    /\ curve \in CodecCurves
    /\ arg = rZero
    /\ result = rZero
    /\ curveOp = "new"
    /\ idleCodec

\* data := c.Encode()
DoCurveEncode ==
    /\ curveOp = "new"
    /\ curveData' = EncodeCurve(curve)
    /\ curveOp' = "encode"
    /\ UNCHANGED <<curve, arg, result, decoded>>
    /\ UNCHANGED notCodec

\* data = data[:n]
CutCurveData(n) ==
    /\ curveOp = "encode"
    /\ n < Len(curveData)
    /\ curveData' = SubSeq(curveData, 1, n)
    /\ curveOp' = "edit"
    /\ UNCHANGED <<curve, arg, result, decoded>>
    /\ UNCHANGED notCodec

\* copy(data[0:4], sig)
RetypeCurveData(sig) ==
    /\ curveOp = "encode"
    /\ SubSeq(curveData, 1, 4) # sig
    /\ curveData' = copyAt(curveData, 0, sig)
    /\ curveOp' = "edit"
    /\ UNCHANGED <<curve, arg, result, decoded>>
    /\ UNCHANGED notCodec

\* c, err := DecodeCurve(data)
DoDecodeCurve ==
    /\ curveOp \in {"encode", "edit"}
    /\ decoded' = DecodeCurve(curveData)
    /\ curveOp' = "decode"
    /\ UNCHANGED <<curve, arg, result, curveData>>
    /\ UNCHANGED notCodec

NextCodec ==
    \/ DoCurveEncode
    \/ \E n \in {7, 11, 13, Len(curveData) - 1} : CutCurveData(n)
    \/ \E sig \in {curv, para, <<88, 89, 90, 32>>} : RetypeCurveData(sig)
    \/ DoDecodeCurve

SpecCodec == InitCodec /\ [][NextCodec]_vars

----------------------------------------------------------------------------
(* The client that inverts what it has evaluated                           *)

\* <<FuncType, Params>> of parametric curves that rise strictly from 0 to 1
\* inside [0, 1], one of each type of more than one segment or term
RisingParams ==
    { <<0, << <<2, 1>> >> >>,
      <<1, << <<2, 1>>, <<1, 2>>, <<1, 2>> >> >>,
      <<2, << <<2, 1>>, <<1, 2>>, <<0, 1>>, <<1, 4>> >> >>,
      <<3, << <<2, 1>>, <<1, 1>>, <<0, 1>>, <<1, 2>>, <<1, 2>> >> >>,
      <<4, << <<2, 1>>, <<1, 2>>, <<0, 1>>, <<1, 8>>, <<1, 2>>, <<1, 8>>, <<1, 8>> >> >> }

\* curves with a flat part, with values above 1, with segments that overlap
\* in their outputs, and with a constant linear segment
OtherParams ==
    { <<1, << <<2, 1>>, <<2, 1>>, <<-1, 2>> >> >>,
      <<2, << <<2, 1>>, <<1, 1>>, <<0, 1>>, <<1, 4>> >> >>,
      <<3, << <<2, 1>>, <<1, 1>>, <<0, 1>>, <<1, 2>>, <<1, 4>> >> >>,
      <<4, << <<2, 1>>, <<1, 1>>, <<0, 1>>, <<1, 2>>, <<1, 2>>, <<1, 8>>, <<1, 8>> >> >>,
      <<4, << <<2, 1>>, <<1, 1>>, <<0, 1>>, <<0, 1>>, <<1, 2>>, <<0, 1>>, <<1, 4>> >> >> }

InverseCurves ==
    { mkCurve(g, 0, nilSlice, nilSlice) : g \in {rZero, rOne, <<2, 1>>} }
    \cup { mkCurve(rZero, pc[1], slice(pc[2]), nilSlice) :
             pc \in RisingParams \cup OtherParams }
    \cup { mkCurve(rZero, 0, nilSlice, slice(t)) :
             t \in {<<0, 65535>>, <<0, 21845, 65535>>, <<0, 0, 65535>>} }

UnitGrid == { <<0, 1>>, <<1, 4>>, <<1, 2>>, <<3, 4>>, <<1, 1>> }

InitInverse ==
    /\ idleProf
    /\ idleDate
    /\ idleBuild
    /\ idleShare
    /\ idleRace
    /\ idleTransform
    /\ idleClut
    /\ idleLut
    /\ idleCodec
    /\ curve \in InverseCurves
    /\ arg = rZero
    /\ result = rZero
    /\ curveOp = "new"

\* xBack := c.Invert(y), for the y := c.Evaluate(x) just computed
DoInvertBack ==
    /\ curveOp = "evaluate"
    /\ \E r \in {Invert(curve, result)} :
        /\ curve' = r.c
        /\ result' = r.y
    /\ curveOp' = "back"
    /\ UNCHANGED arg
    /\ UNCHANGED notCurve

NextInverse ==
    \/ \E x \in UnitGrid : DoEvaluate(x)
    \/ DoInvertBack
    \/ \E y \in InvertArgs : DoInvert(y)

SpecInverse == InitInverse /\ [][NextInverse]_vars

----------------------------------------------------------------------------
(* The client of a Lut: the tables it holds and the vectors it applies     *)
(* them to                                                                 *)

mkLutAB(kind, inCh, outCh, a, grid, clut, m, matrix, b) ==
    [kind |-> kind, inputChannels |-> inCh, outputChannels |-> outCh,
     aCurves |-> a, gridPoints |-> grid, clut |-> clut, clutPrecision |-> 2,
     mCurves |-> m, matrix |-> matrix, bCurves |-> b]

mkLutUniform(kind, inCh, outCh, grid, matrix, inCurves, clut, outCurves) ==
    [kind |-> kind, inputChannels |-> inCh, outputChannels |-> outCh,
     gridPoints |-> grid, matrix |-> matrix, inputCurves |-> inCurves,
     clut |-> clut, outputCurves |-> outCurves]

\* n copies of the gamma curve y = x^2
squareCurves(n) == slice([i \in 1..n |-> mkCurve(<<2, 1>>, 0, nilSlice, nilSlice)])

\* n copies of the parametric curve y = (x/2 + 1/2)^2
liftCurves(n) ==
    slice([i \in 1..n |->
              mkCurve(rZero, 1, slice(<< <<2, 1>>, <<1, 2>>, <<1, 2>> >>), nilSlice)])

\* a CLUT on the grid 2 x 2 x 2 with 3 outputs that maps the corner
\* (r, g, b) to (1 - r, 1 - g, b)
cornerCLUT ==
    slice([k \in 1..24 |->
              IF (k - 1) % 3 = 0 THEN fromI(1 - ((k - 1) \div 12))
              ELSE IF (k - 1) % 3 = 1 THEN fromI(1 - (((k - 1) \div 6) % 2))
              ELSE fromI(((k - 1) \div 3) % 2)])

\* y = x/2 + 1/4 on each component
halfMatrix3x4 ==
    slice(<< <<1, 2>>, rZero, rZero, rZero, <<1, 2>>, rZero, rZero, rZero, <<1, 2>>,
             <<1, 4>>, <<1, 4>>, <<1, 4>> >>)

\* y = x/2 on each component
halfMatrix3x3 ==
    slice(<< <<1, 2>>, rZero, rZero, rZero, <<1, 2>>, rZero, rZero, rZero, <<1, 2>> >>)

\* LutAToB and LutBToA values of 3 inputs and 3 outputs, each part present
\* or absent
LutsAB ==
    { mkLutAB(k, 3, 3, a, <<2, 2, 2>>, c, m, x, b) :
        k \in {"LutAToB", "LutBToA"},
        a \in {nilSlice, squareCurves(3)},
        c \in {nilSlice, cornerCLUT},
        m \in {nilSlice, liftCurves(3)},
        x \in {nilSlice, halfMatrix3x4},
        b \in {nilSlice, squareCurves(3)} }

\* 1 input and 3 outputs (LutAToB) and 3 inputs and 1 output (LutBToA),
\* through a CLUT with other than 3 inputs or unequal grid sizes
LutsNarrow ==
    { mkLutAB("LutAToB", 1, 3, squareCurves(1), <<2>>,
              slice(<<rOne, rZero, rZero, rZero, <<1, 2>>, rOne>>),
              liftCurves(3), halfMatrix3x4, squareCurves(3)),
      mkLutAB("LutBToA", 3, 1, squareCurves(1), <<2, 1, 1>>,
              slice(<<rOne, rZero>>),
              liftCurves(3), halfMatrix3x4, squareCurves(3)) }

LutsUniform ==
    { mkLutUniform(k, 3, 3, 2, x, squareCurves(3), c, liftCurves(3)) :
        k \in {"Lut8", "Lut16"}, x \in {nilSlice, halfMatrix3x3},
        c \in {nilSlice, cornerCLUT} }
    \cup { mkLutUniform(k, 1, 2, 2, nilSlice, squareCurves(1),
                        slice(<<rZero, rOne, rOne, <<1, 2>>>>), nilSlice) :
             k \in {"Lut8", "Lut16"} }

\* other numbers of inputs than of outputs with no CLUT, with a CLUT whose
\* grid has another number of dimensions than the table has inputs, and
\* with a CLUT and the grid size 0
LutsBare ==
    { mkLutAB("LutAToB", 1, 3, squareCurves(1), <<>>, nilSlice, liftCurves(3),
              halfMatrix3x4, squareCurves(3)),
      mkLutAB("LutBToA", 3, 1, squareCurves(1), <<>>, nilSlice, liftCurves(3),
              halfMatrix3x4, squareCurves(3)),
      mkLutAB("LutAToB", 1, 3, nilSlice, <<2, 2>>,
              slice([k \in 1..12 |-> rat(k, 12)]), nilSlice, nilSlice, nilSlice),
      mkLutAB("LutBToA", 3, 2, nilSlice, <<2>>, slice(<<rZero, rOne, rOne, rZero>>),
              nilSlice, nilSlice, nilSlice) }
    \cup { mkLutUniform(k, 1, 2, g[1], nilSlice, squareCurves(1), g[2], nilSlice) :
             k \in {"Lut8", "Lut16"},
             g \in { <<2, nilSlice>>, <<0, slice(<<rZero, rOne>>)>> } }

Luts == LutsAB \cup LutsNarrow \cup LutsUniform \cup LutsBare

LutInputs ==
    { <<>>, << <<1, 2>> >>, << <<1, 4>>, <<1, 2>>, <<3, 4>> >>,
      << <<3, 4>>, <<1, 4>>, <<1, 1>> >>, << <<1, 2>>, <<1, 2>>, <<1, 2>>, <<1, 2>> >> }

InitLut ==
    /\ idleProf
    /\ idleDate
    /\ idleBuild
    /\ idleShare
    /\ idleRace
    /\ idleTransform
    /\ idleClut
    /\ idleCurve
    /\ idleCodec
    /\ lut \in Luts
    /\ lutIn = <<>>
    /\ lutOut = <<>>
    /\ lutOp = "new"
    /\ lutData = <<>>
    /\ lutDecoded = "none"

\* output := l.Apply(input)
DoApply(input) ==
    /\ lutIn' = input
    /\ lutOut' = ApplyLut(lut, input)
    /\ lutOp' = "apply"
    /\ UNCHANGED <<lut, lutData, lutDecoded>>
    /\ UNCHANGED notLut

NextLut == \E input \in LutInputs : DoApply(input)

SpecLut == InitLut /\ [][NextLut]_vars

----------------------------------------------------------------------------
(* The client of the mAB / mBA codec: the tables it builds, encodes and    *)
(* decodes again                                                           *)

\* n curves: nil, a sampled curve, then parametric curves of type 1
mixedCurves(n) ==
    slice([i \in 1..n |->
              IF i = 1 THEN nilCurve
              ELSE IF i = 2 THEN mkCurve(rZero, 0, nilSlice, slice(<<0, 65535>>))
              ELSE liftCurves(1).v[1]])

\* n parametric curves of the function type 5
oddCurves(n) ==
    slice([i \in 1..n |-> mkCurve(rZero, 5, slice(<< <<2, 1>> >>), nilSlice)])

\* a grid of 2 points in each of n dimensions
gridOf(n) == [i \in 1..n |-> 2]

\* a CLUT of len samples k/len
rampCLUT(len) == slice([k \in 1..len |-> rat(k - 1, len)])

identity3x4 ==
    slice(<<rOne, rZero, rZero, rZero, rOne, rZero, rZero, rZero, rOne,
            rZero, rZero, rZero>>)

\* 1/3 is no s15Fixed16 value
thirdMatrix3x4 == slice([i \in 1..12 |-> IF i \in {1, 5, 9} THEN <<1, 3>> ELSE rZero])

\* within 1e-6 of the identity
nearIdentity3x4 ==
    slice([i \in 1..12 |-> IF i \in {1, 5, 9} THEN rOne
                           ELSE IF i > 9 THEN <<1, 1048576>> ELSE rZero])

ChannelPairs == {<<3, 3>>, <<1, 3>>, <<3, 1>>, <<4, 2>>, <<16, 3>>, <<3, 0>>}

\* the grid, the CLUT and its precision: none of them, a precision or a
\* grid alone, a CLUT of the length that the grid gives under each precision, a CLUT with
\* one sample too many, and a grid of fewer dimensions than inputs
clutChoices(inCh, outCh) ==
    { [gridPoints |-> <<>>, clut |-> nilSlice, clutPrecision |-> 0] }
    \cup (IF inCh > 4 \/ outCh = 0 THEN {}
          ELSE { [gridPoints |-> <<>>, clut |-> nilSlice, clutPrecision |-> 2],
                 [gridPoints |-> gridOf(inCh), clut |-> nilSlice, clutPrecision |-> 0],
                 [gridPoints |-> gridOf(inCh), clut |-> rampCLUT(2^inCh * outCh + 1),
                  clutPrecision |-> 2],
                 [gridPoints |-> gridOf(inCh - 1), clut |-> rampCLUT(2^(inCh - 1) * outCh),
                  clutPrecision |-> 2] }
               \cup { [gridPoints |-> gridOf(inCh), clut |-> rampCLUT(2^inCh * outCh),
                       clutPrecision |-> p] : p \in 0..2 })

\* a list of curves for a position that takes n of them: none, n curves of
\* each sort, and one curve too many
curveChoices(n) ==
    {nilSlice, squareCurves(n), mixedCurves(n), oddCurves(n), squareCurves(n + 1)}

\* the M curves and the matrix
matrixChoices ==
    { <<nilSlice, nilSlice>>, <<liftCurves(3), halfMatrix3x4>>,
      <<nilSlice, halfMatrix3x3>>, <<liftCurves(3), identity3x4>>,
      <<nilSlice, thirdMatrix3x4>>, <<liftCurves(3), nearIdentity3x4>> }

CodecLuts ==
    UNION { { [mkLutAB(k, ch[1], ch[2], a, c.gridPoints, c.clut, mx[1], mx[2], b)
                  EXCEPT !.clutPrecision = c.clutPrecision] :
                a \in curveChoices(IF k = "LutBToA" THEN ch[2] ELSE ch[1]),
                b \in {nilSlice, squareCurves(1),
                       mixedCurves(IF k = "LutBToA" THEN ch[1] ELSE ch[2])},
                c \in clutChoices(ch[1], ch[2]),
                mx \in matrixChoices } :
            k \in {"LutAToB", "LutBToA"}, ch \in ChannelPairs }

InitLutAB ==
    /\ idleProf
    /\ idleDate
    /\ idleBuild
    /\ idleShare
    /\ idleRace
    /\ idleTransform
    /\ idleClut
    /\ idleCurve
    /\ idleCodec
    /\ lut \in CodecLuts
    /\ lutIn = <<>>
    /\ lutOut = <<>>
    /\ lutOp = "new"
    /\ lutData = <<>>
    /\ lutDecoded = "none"

\* data, _ := l.Encode()
DoLutEncode ==
    /\ lutOp = "new"
    /\ lutData' = encodeLutAB(lut)
    /\ lutOp' = "encode"
    /\ UNCHANGED <<lut, lutIn, lutOut, lutDecoded>>
    /\ UNCHANGED notLut

\* decoded, err := DecodeLut(data), unless Encode has panicked
DoDecodeLut ==
    /\ lutOp = "encode"
    /\ lutData # encodePanicked
    /\ lutDecoded' = DecodeLut(lutData)
    /\ lutOp' = "decode"
    /\ UNCHANGED <<lut, lutIn, lutOut, lutData>>
    /\ UNCHANGED notLut

NextLutAB == DoLutEncode \/ DoDecodeLut

SpecLutAB == InitLutAB /\ [][NextLutAB]_vars

----------------------------------------------------------------------------
(* The client of the CLUT size guard: the grid sizes and the output        *)
(* channels it asks the size of, and the CLUT block it declares them in    *)

\* n dimensions of g points each
cube(n, g) == [i \in 1..n |-> g]

GridVectors ==
    { <<2>>, <<256>>, <<3, 5>>, <<256, 2>>, <<2, 2, 2>>, <<17, 17, 17>>,
      <<255, 255, 255>>, <<256, 256, 256>>, <<128, 128, 128, 128>>,
      <<255, 255, 255, 255>>, <<256, 256, 256, 64>>, <<256, 256, 256, 256>>,
      cube(15, 1), cube(15, 2), cube(15, 4), cube(15, 5), cube(15, 256) }

OutputCounts == {1, 2, 3, 4, 15}

\* the precision byte and the number of bytes behind the header of 20
BlockShapes == {<<1, 0>>, <<1, 45>>, <<2, 90>>, <<2, 8>>, <<3, 90>>}

InitClut ==
    /\ idleProf
    /\ idleDate
    /\ idleBuild
    /\ idleShare
    /\ idleRace
    /\ idleTransform
    /\ idleCurve
    /\ idleCodec
    /\ idleLut
    /\ clutIn \in { [gridPoints |-> g, outputChannels |-> o, precision |-> b[1],
                     samples |-> b[2]] :
                      g \in GridVectors, o \in OutputCounts, b \in BlockShapes }
    /\ clutBlock = <<>>
    /\ clutOut = [size |-> -1, decoded |-> "none"]
    /\ clutOp = "new"

\* size := computeCLUTSize(gridPoints, outputChannels)
DoComputeSize ==
    /\ clutOp = "new"
    /\ clutOut' = [clutOut EXCEPT
                      !.size = computeCLUTSize(clutIn.gridPoints, clutIn.outputChannels)]
    /\ clutOp' = "size"
    /\ UNCHANGED <<clutIn, clutBlock>>
    /\ UNCHANGED notClut

\* the header of a CLUT block as encodeCLUT lays it out, buf[i] = byte(g)
\* and buf[16] = byte(precision), with the sample bytes behind it
DoDeclare ==
    /\ clutOp = "size"
    /\ clutBlock' = [i \in 1..16 |-> IF i <= Len(clutIn.gridPoints)
                                    THEN clutIn.gridPoints[i] % 256 ELSE 0]
                   \o <<clutIn.precision, 0, 0, 0>>
                   \o [i \in 1..clutIn.samples |-> (37 * i) % 256]
    /\ clutOp' = "declare"
    /\ UNCHANGED <<clutIn, clutOut>>
    /\ UNCHANGED notClut

\* gridPoints, clut, precision, err := decodeCLUT(data, 0, inputChannels,
\* outputChannels)
DoDecodeCLUT ==
    /\ clutOp = "declare"
    /\ clutOut' = [clutOut EXCEPT
                      !.decoded = decodeCLUT(clutBlock, 0, Len(clutIn.gridPoints),
                                             clutIn.outputChannels)]
    /\ clutOp' = "decode"
    /\ UNCHANGED <<clutIn, clutBlock>>
    /\ UNCHANGED notClut

NextClut == DoComputeSize \/ DoDeclare \/ DoDecodeCLUT

SpecClut == InitClut /\ [][NextClut]_vars

----------------------------------------------------------------------------
(* The client of the transform: the profiles it hands to NewTransform, and *)
(* the colours it converts                                                 *)

LutTags == {"A2B0", "A2B1", "A2B2", "B2A0", "B2A1", "B2A2"}

MatrixTRCTags == {"rXYZ", "gXYZ", "bXYZ", "rTRC", "gTRC", "bTRC"}

\* an XYZType tag of three s15Fixed16 values
xyzData(x, y, z) ==
    <<88, 89, 90, 32>> \o zeros(4) \o s15Fixed16Bytes(x) \o s15Fixed16Bytes(y)
        \o s15Fixed16Bytes(z)

\* the tables of the six LUT tags differ in the offsets of their matrix:
\* (n + 1)/16 for A2Bn and (n + 4)/16 for B2An
lutOfTag(tag) ==
    LET n == CASE tag = "A2B0" -> 1 [] tag = "A2B1" -> 2 [] tag = "A2B2" -> 3
               [] tag = "B2A0" -> 4 [] tag = "B2A1" -> 5 [] OTHER -> 6
    IN  mkLutAB(IF n <= 3 THEN "LutAToB" ELSE "LutBToA", 3, 3, nilSlice, <<>>,
                nilSlice, nilSlice,
                slice([i \in 1..12 |-> IF i \in {1, 5, 9} THEN <<1, 2>>
                                       ELSE IF i > 9 THEN rat(n, 16) ELSE rZero]),
                nilSlice)

\* the bytes of a tag: "plain" tags decode; of the "bad" ones the LUT tags
\* are cut short, the matrix columns are all the same and the gray TRC is
\* of no curve type; of the "dim" ones the white point is cut short
tagData(tag, variant) ==
    IF tag \in LutTags
    THEN SubSeq(encodeLutAB(lutOfTag(tag)), 1,
                IF variant = "bad" THEN 40 ELSE Len(encodeLutAB(lutOfTag(tag))))
    ELSE IF tag = "rXYZ" THEN xyzData(<<1, 2>>, <<1, 4>>, rZero)
    ELSE IF tag = "gXYZ"
    THEN (IF variant = "bad" THEN xyzData(<<1, 2>>, <<1, 4>>, rZero)
          ELSE xyzData(rZero, <<1, 2>>, rZero))
    ELSE IF tag = "bXYZ" THEN xyzData(rZero, <<1, 4>>, <<1, 2>>)
    ELSE IF tag = "kTRC"
    THEN (IF variant = "bad" THEN xyzData(rZero, rZero, rZero)
          ELSE EncodeCurve(mkCurve(<<2, 1>>, 0, nilSlice, nilSlice)))
    ELSE IF tag = "wtpt"
    THEN SubSeq(xyzData(<<1, 4>>, <<1, 4>>, <<1, 4>>), 1,
                IF variant = "dim" THEN 16 ELSE 20)
    ELSE EncodeCurve(mkCurve(rOne, 0, nilSlice, nilSlice))

xfProfile(pcs, tags, variant) ==
    [PCS |-> pcs, TagData |-> [tag \in tags |-> tagData(tag, variant)]]

\* every set of LUT tags with none, all or all but one of the matrix/TRC
\* tags and with or without the gray TRC; the sets with at most one LUT
\* tag also with a white point, with the PCS Lab and with bad tags
TransformProfiles ==
    { xfProfile(v[1], v[2], v[3]) :
        v \in { <<PCSXYZSpace, l \cup m \cup g, "plain">> :
                  l \in SUBSET LutTags,
                  m \in {{}, MatrixTRCTags, MatrixTRCTags \ {"bTRC"}},
                  g \in {{}, {"kTRC"}} }
              \cup { <<w[1], l \cup m \cup g \cup w[2], w[3]>> :
                       l \in {{}} \cup {{tag} : tag \in LutTags},
                       m \in {{}, MatrixTRCTags},
                       g \in {{}, {"kTRC"}},
                       w \in {<<PCSXYZSpace, {"wtpt"}, "plain">>,
                              <<PCSLabSpace, {}, "plain">>,
                              <<PCSXYZSpace, {}, "bad">>} } }

\* the four intents, and one that is none of them
TransformIntents == 0..4

\* 0, 1/64 and 1 times the D50 white point
TransformInputs ==
    { <<rZero, rZero, rZero>>, <<rat(4821, 320000), <<1, 64>>, rat(8249, 640000)>>,
      d50WhitePoint }

InitTransform ==
    /\ idleProf
    /\ idleDate
    /\ idleBuild
    /\ idleShare
    /\ idleRace
    /\ idleCurve
    /\ idleCodec
    /\ idleLut
    /\ idleClut
    /\ xfIn \in [p : TransformProfiles, dir : {DeviceToPCS, PCSToDevice},
                 intent : TransformIntents]
    /\ xf = initResult(nilTransform, "none")
    /\ xfArg = <<>>
    /\ xfOut = <<>>
    /\ xfOp = "new"

\* t, err := NewTransform(p, dir, intent)
DoNewTransform ==
    /\ xfOp = "new"
    /\ xf' = NewTransform(xfIn.p, xfIn.dir, xfIn.intent)
    /\ xfOp' = "made"
    /\ UNCHANGED <<xfIn, xfArg, xfOut>>
    /\ UNCHANGED notTransform

\* out := t.FromXYZ(X, Y, Z)
DoFromXYZ(xyz) ==
    /\ xfOp = "made"
    /\ xf.err = ErrNil
    /\ \E r \in {FromXYZ(xf.t, xyz[1], xyz[2], xyz[3])} :
        /\ xf' = [xf EXCEPT !.t = r.t]
        /\ xfOut' = r.out
    /\ xfArg' = xyz
    /\ xfOp' = "FromXYZ"
    /\ UNCHANGED xfIn
    /\ UNCHANGED notTransform

\* out := t.Apply(input)
DoTransformApply(input) ==
    /\ xfOp = "made"
    /\ xf.err = ErrNil
    /\ \E r \in {Apply(xf.t, input)} :
        /\ xf' = [xf EXCEPT !.t = r.t]
        /\ xfOut' = r.out
    /\ xfArg' = input
    /\ xfOp' = "Apply"
    /\ UNCHANGED xfIn
    /\ UNCHANGED notTransform

NextTransform ==
    \/ DoNewTransform
    \/ \E xyz \in TransformInputs : DoFromXYZ(xyz)
    \/ \E input \in { << <<1, 4>> >>, << <<1, 4>>, <<1, 2>>, <<3, 4>> >> } :
           DoTransformApply(input)

SpecTransform == InitTransform /\ [][NextTransform]_vars

----------------------------------------------------------------------------
(* Two concurrent Invert calls on one sampled Curve.  Curve has no lock:   *)
(* invertSampled tests c.inverseTable for nil, buildInverseTable assigns   *)
(* the freshly made (zeroed) slice to c.inverseTable before its loop fills *)
(* it, and every c.inverseTable[i] of the loop and of the interpolation    *)
(* indexes whatever slice the field holds at that moment.  The slice is    *)
(* kept as the set of blocks of entries written so far: a written entry i  *)
(* holds inverseEntry(Table, i), any other entry the zero make left.  The  *)
(* loop is observed at block boundaries.                                   *)

\* the number of blocks in which the loop of buildInverseTable is observed
FillBlocks == 4

blockSize == (invSize + FillBlocks - 1) \div FillBlocks

blockOf(i) == i \div blockSize

Blocks == 0..(FillBlocks - 1)

Callers == 1..2

\* c.inverseTable[i] as the field holds it now
entryNow(c, i) ==
    IF blockOf(i) \in c.written THEN inverseEntry(c.Table.v, i) ELSE rZero

\* invertSampled past its test of the field, on the slice the field holds
\* now: its length is the invSize of make
invertNow(c, y) ==
    invertInTable([i \in 1..invSize |-> entryNow(c, i - 1)], invSize,
                  rMul(y, fromI(invSize - 1)), truncInt(rMul(y, fromI(invSize - 1))))

\* if c.inverseTable == nil
needsBuild_always(c) == TRUE

needsBuild(c) == c.tableNil

\* the entries the interpolation of invertSampled reads for a clamped y
entriesRead(y) ==
    LET idx == truncInt(rMul(y, fromI(invSize - 1)))
    IN  IF idx < 0 THEN {0}
        ELSE IF idx >= invSize - 1 THEN {invSize - 1}
        ELSE {idx, idx + 1}

\* what Invert returns when no other call runs: every entry is written
\* before the interpolation reads it
sequentialInvert(c, y) ==
    invertNow([c EXCEPT !.written = Blocks], clamp(y, rZero, rOne))

RaceTables == { <<0, 65535>>, <<0, 21845, 65535>>, <<>> }

RaceArgs == { rZero, <<1, 4>>, <<3, 4>>, rOne }

newCall(y) ==
    [y |-> y, pc |-> "invert", i |-> 0, x |-> rZero, sawTable |-> FALSE,
     unfilled |-> FALSE]

InitRace ==
    /\ idleProf
    /\ idleDate
    /\ idleBuild
    /\ idleShare
    /\ idleCurve
    /\ idleCodec
    /\ idleLut
    /\ idleClut
    /\ idleTransform
    /\ \E t \in RaceTables, prebuilt \in BOOLEAN :
           sharedCurve = [Table |-> slice(t), tableNil |-> ~prebuilt,
                          written |-> IF prebuilt THEN Blocks ELSE {},
                          prebuilt |-> prebuilt]
    /\ calls \in [Callers -> { newCall(y) : y \in RaceArgs }]

\* Invert clamps y and, for a sampled curve, invertSampled tests the field
CallInvert(k) ==
    /\ calls[k].pc = "invert"
    /\ calls' = [calls EXCEPT
                   ![k].y = clamp(calls[k].y, rZero, rOne),
                   ![k].sawTable = ~needsBuild(sharedCurve),
                   ![k].pc = IF needsBuild(sharedCurve) THEN "make" ELSE "read"]
    /\ UNCHANGED sharedCurve
    /\ UNCHANGED notRace

\* c.inverseTable = make([]float64, invSize)
CallMake(k) ==
    /\ calls[k].pc = "make"
    /\ sharedCurve' = [sharedCurve EXCEPT !.tableNil = FALSE, !.written = {}]
    /\ calls' = [calls EXCEPT ![k].i = 0, ![k].pc = "fill"]
    /\ UNCHANGED notRace

\* the loop writes the entries of its next block into the slice of the field
CallFill(k) ==
    /\ calls[k].pc = "fill"
    /\ sharedCurve' = [sharedCurve EXCEPT !.written = @ \cup {calls[k].i}]
    /\ calls' = [calls EXCEPT
                   ![k].i = @ + 1,
                   ![k].pc = IF calls[k].i + 1 = FillBlocks THEN "read" ELSE "fill"]
    /\ UNCHANGED notRace

\* the interpolation in the slice of the field
CallRead(k) ==
    /\ calls[k].pc = "read"
    /\ calls' = [calls EXCEPT
                   ![k].x = invertNow(sharedCurve, calls[k].y),
                   ![k].unfilled = \E i \in entriesRead(calls[k].y) :
                                       blockOf(i) \notin sharedCurve.written,
                   ![k].pc = "done"]
    /\ UNCHANGED sharedCurve
    /\ UNCHANGED notRace

NextRace ==
    \/ \E k \in Callers : CallInvert(k)
    \/ \E k \in Callers : CallMake(k)
    \/ \E k \in Callers : CallFill(k)
    \/ \E k \in Callers : CallRead(k)

SpecRace == InitRace /\ [][NextRace]_vars

----------------------------------------------------------------------------
(* Two Transforms built from one Profile, and one call at a time on each   *)
(* of them, with the calls of the two interleaved.  A Transform holds      *)
(* pointers to its Curves: the Curves live on a heap, and a Transform      *)
(* names the places of its own.  A call reads the immutable fields of its  *)
(* Transform and of the Profile; what it writes is the inverse table of a  *)
(* sampled Curve, in the steps of invertSampled and buildInverseTable.     *)

\* the calls that one Transform receives
MaxShareCalls == 2

\* one place for every Curve
newObject_reused(heap) == 1

\* DecodeCurve returns a Curve of its own, &Curve{...}: the next free place
newObject(heap) == Len(heap) + 1

\* the Curve as decoded: no inverse table yet
heapObject(c) == [c |-> c, Table |-> c.Table, tableNil |-> TRUE, written |-> {}]

placeObject(heap, id, c) ==
    IF id > Len(heap) THEN Append(heap, heapObject(c))
    ELSE [heap EXCEPT ![id] = heapObject(c)]

\* the Curves that the init functions decode for the Transform
curvesOfTransform(t) ==
    IF t.profileType = profileTypeMatrixTRC THEN t.trc
    ELSE IF t.profileType = profileTypeGrayTRC THEN <<t.grayTRC>>
    ELSE <<>>

\* the heap with the Curves cs[i..] placed, and their places
RECURSIVE allocCurves(_, _, _, _)
allocCurves(heap, cs, i, ids) ==
    IF i > Len(cs) THEN [heap |-> heap, ids |-> ids]
    ELSE allocCurves(placeObject(heap, newObject(heap), cs[i]), cs, i + 1,
                     Append(ids, newObject(heap)))

\* no vector: the call returns before it reaches Apply
noApply == << <<0, 0>>, <<0, 0>> >>

\* the vector that the call hands to Apply
applyInput(t, op, vec) ==
    IF op = "Apply" THEN vec
    ELSE IF op = "ToXYZ" THEN (IF t.direction # DeviceToPCS THEN noApply ELSE vec)
    ELSE IF t.direction # PCSToDevice THEN noApply
    ELSE IF t.profile.PCS # PCSLabSpace THEN vec
    ELSE IF t.profileType = profileTypeLut
    THEN normaliseLab(xyzToLab(vec[1], vec[2], vec[3], t.whitePoint))
    ELSE xyzToLab(vec[1], vec[2], vec[3], t.whitePoint)

\* what the call makes of the result of Apply
resultOf(t, op, out) == IF op = "ToXYZ" THEN toXYZOf(t, out) ELSE out

\* what the call returns when no other call runs
aloneValue(t, op, input) ==
    IF input = noApply THEN (IF op = "ToXYZ" THEN <<rZero, rZero, rZero>> ELSE <<>>)
    ELSE resultOf(t, op, Apply(t, input).out)

\* trcInv[i].Invert(clamp(lin[i], 0, 1)) for the three curves
linearInversions(ids, lin) ==
    [i \in 1..3 |-> <<ids[i], clamp(lin[i], rZero, rOne)>>]

\* the Invert calls that Apply makes for the input, as <<place, y>>
inversions(x, input) ==
    IF input = noApply \/ x.t.direction # PCSToDevice THEN <<>>
    ELSE IF x.t.profileType = profileTypeMatrixTRC /\ Len(input) = 3
    THEN linearInversions(x.ids, applyMatrix3x3(x.t.matrixInv, input))
    ELSE IF x.t.profileType = profileTypeGrayTRC /\ Len(input) = 1
    THEN << <<x.ids[1], clamp(normalisedY(x.t, input[1]), rZero, rOne)>> >>
    ELSE <<>>

\* Invert reaches invertSampled
isSampled(c) == ~(c.Gamma # rZero /\ c.Params.nil /\ c.Table.nil) /\ c.Params.nil
                /\ ~c.Table.nil

\* sampled curves of 2 and of 3 entries
shareTagData(tag) ==
    IF tag \in LutTags THEN encodeLutAB(lutOfTag(tag))
    ELSE IF tag = "rXYZ" THEN xyzData(<<1, 2>>, <<1, 4>>, rZero)
    ELSE IF tag = "gXYZ" THEN xyzData(rZero, <<1, 2>>, rZero)
    ELSE IF tag = "bXYZ" THEN xyzData(rZero, <<1, 4>>, <<1, 2>>)
    ELSE IF tag = "gTRC" THEN EncodeCurve(mkCurve(<<2, 1>>, 0, nilSlice, nilSlice))
    ELSE IF tag = "bTRC"
    THEN EncodeCurve(mkCurve(rZero, 0, nilSlice, slice(<<0, 21845, 65535>>)))
    ELSE EncodeCurve(mkCurve(rZero, 0, nilSlice, slice(<<0, 65535>>)))

\* a matrix/TRC, a gray and a LUT profile
ShareProfiles ==
    { [PCS |-> PCSXYZSpace, TagData |-> [tag \in tags |-> shareTagData(tag)]] :
        tags \in {MatrixTRCTags, {"kTRC"}, {"A2B0", "B2A0"}} }

ShareInputs == { << <<1, 4>> >>, << <<1, 4>>, <<1, 8>>, <<1, 4>> >> }

ShareOps == {"Apply", "ToXYZ", "FromXYZ"}

\* the value that the call op(vec) returns on a Transform of its own, built
\* for the profile and the direction, when nothing else runs
aloneCall(p, dir, op, vec, t) ==
    [p |-> p, dir |-> dir, op |-> op, vec |-> vec,
     alone |-> aloneValue(t, op, applyInput(t, op, vec))]

aloneCalls ==
    { aloneCall(p, dir, op, vec, NewTransform(p, dir, Perceptual).t) :
        p \in ShareProfiles, dir \in {DeviceToPCS, PCSToDevice},
        op \in ShareOps, vec \in ShareInputs }

aloneOf(p, dir, op, vec) ==
    (CHOOSE r \in aloneCalls : r.p = p /\ r.dir = dir /\ r.op = op /\ r.vec = vec).alone

idleCall(dir) ==
    [dir |-> dir, pc |-> "new", n |-> 0, op |-> "", arg |-> <<>>, alone |-> <<>>,
     pending |-> <<>>, got |-> <<>>, i |-> 0, out |-> <<>>, overlapped |-> FALSE]

InitShare ==
    /\ idleProf
    /\ idleDate
    /\ idleBuild
    /\ idleCurve
    /\ idleCodec
    /\ idleLut
    /\ idleClut
    /\ idleTransform
    /\ idleRace
    /\ shProfile \in ShareProfiles
    /\ shHeap = <<>>
    /\ shXf = [k \in Callers |-> [t |-> nilTransform, ids |-> <<>>]]
    /\ shCalls \in [Callers -> { idleCall(dir) : dir \in {DeviceToPCS, PCSToDevice} }]

\* t, err := NewTransform(p, dir, Perceptual)
ShareNew(k) ==
    /\ shCalls[k].pc = "new"
    /\ \E r \in {NewTransform(shProfile, shCalls[k].dir, Perceptual)} :
        /\ r.err = ErrNil
        /\ \E a \in {allocCurves(shHeap, curvesOfTransform(r.t), 1, <<>>)} :
            /\ shHeap' = a.heap
            /\ shXf' = [shXf EXCEPT ![k] = [t |-> r.t, ids |-> a.ids]]
    /\ shCalls' = [shCalls EXCEPT ![k].pc = "ready"]
    /\ UNCHANGED shProfile
    /\ UNCHANGED notShare

\* the call starts: t.Apply(vec), t.ToXYZ(vec) or t.FromXYZ(vec...)
ShareBegin(k, op, vec) ==
    /\ shCalls[k].pc \in {"ready", "done"}
    /\ shCalls[k].n < MaxShareCalls
    /\ op = "FromXYZ" => Len(vec) = 3
    /\ \E input \in {applyInput(shXf[k].t, op, vec)} :
        \E pending \in {inversions(shXf[k], input)} :
            shCalls' = [shCalls EXCEPT
                          ![k].op = op, ![k].arg = vec, ![k].n = @ + 1,
                          ![k].alone = aloneOf(shProfile, shCalls[k].dir, op, vec),
                          ![k].pending = pending, ![k].got = <<>>,
                          ![k].out = <<>>, ![k].overlapped = FALSE,
                          ![k].pc = IF pending = <<>> THEN "finish" ELSE "invert"]
    /\ UNCHANGED <<shProfile, shHeap, shXf>>
    /\ UNCHANGED notShare

\* Invert on the next curve: a curve that is not sampled inverts in place,
\* invertSampled tests the field inverseTable
ShareInvert(k) ==
    /\ shCalls[k].pc = "invert"
    /\ \E o \in {shHeap[shCalls[k].pending[1][1]]} :
        IF isSampled(o.c)
        THEN shCalls' = [shCalls EXCEPT
                           ![k].pc = IF needsBuild(o) THEN "make" ELSE "read"]
        ELSE shCalls' = [shCalls EXCEPT
                           ![k].got = Append(@, Invert(o.c, shCalls[k].pending[1][2]).y),
                           ![k].pending = Tail(@),
                           ![k].pc = IF Len(shCalls[k].pending) = 1 THEN "finish"
                                     ELSE "invert"]
    /\ UNCHANGED <<shProfile, shHeap, shXf>>
    /\ UNCHANGED notShare

\* c.inverseTable = make([]float64, invSize)
ShareMake(k) ==
    /\ shCalls[k].pc = "make"
    /\ shHeap' = [shHeap EXCEPT ![shCalls[k].pending[1][1]].tableNil = FALSE,
                                ![shCalls[k].pending[1][1]].written = {}]
    /\ shCalls' = [shCalls EXCEPT ![k].i = 0, ![k].pc = "fill"]
    /\ UNCHANGED <<shProfile, shXf>>
    /\ UNCHANGED notShare

\* the loop writes the entries of its next block
ShareFill(k) ==
    /\ shCalls[k].pc = "fill"
    /\ shHeap' = [shHeap EXCEPT ![shCalls[k].pending[1][1]].written =
                                    @ \cup {shCalls[k].i}]
    /\ shCalls' = [shCalls EXCEPT
                     ![k].i = @ + 1,
                     ![k].pc = IF shCalls[k].i + 1 = FillBlocks THEN "read" ELSE "fill"]
    /\ UNCHANGED <<shProfile, shXf>>
    /\ UNCHANGED notShare

\* the interpolation in the inverse table of the curve
ShareRead(k) ==
    /\ shCalls[k].pc = "read"
    /\ shCalls' = [shCalls EXCEPT
                     ![k].got = Append(@, invertNow(shHeap[shCalls[k].pending[1][1]],
                                                    shCalls[k].pending[1][2])),
                     ![k].pending = Tail(@),
                     ![k].overlapped =
                         @ \/ \E j \in Callers \ {k} : shCalls[j].pc \in {"make", "fill"},
                     ![k].pc = IF Len(shCalls[k].pending) = 1 THEN "finish"
                               ELSE "invert"]
    /\ UNCHANGED <<shProfile, shHeap, shXf>>
    /\ UNCHANGED notShare

\* the call returns: the clamped inverses of a matrix/TRC profile, the one
\* inverse of a gray profile, and what a call without Invert computes from
\* the fields that no call writes
ShareFinish(k) ==
    /\ shCalls[k].pc = "finish"
    /\ shCalls' = [shCalls EXCEPT
                     ![k].out = IF shCalls[k].got = <<>> THEN shCalls[k].alone
                                ELSE IF shXf[k].t.profileType = profileTypeMatrixTRC
                                THEN clampValues(shCalls[k].got)
                                ELSE shCalls[k].got,
                     ![k].pc = "done"]
    /\ UNCHANGED <<shProfile, shHeap, shXf>>
    /\ UNCHANGED notShare

NextShare ==
    \/ \E k \in Callers : ShareNew(k)
    \/ \E k \in Callers, op \in ShareOps, vec \in ShareInputs :
           ShareBegin(k, op, vec)
    \/ \E k \in Callers : ShareInvert(k)
    \/ \E k \in Callers : ShareMake(k)
    \/ \E k \in Callers : ShareFill(k)
    \/ \E k \in Callers : ShareRead(k)
    \/ \E k \in Callers : ShareFinish(k)

SpecShare == InitShare /\ [][NextShare]_vars

----------------------------------------------------------------------------
(* buildInverseTable step by step: the slice is made, then the loop writes *)
(* one entry per iteration.  The state keeps the Table, the number of      *)
(* entries written, and for the last iteration the index that the binary   *)
(* search returned and the entry written.                                  *)

\* rising tables, tables with runs of equal samples, tables that cover a
\* part of the range, and tables that are not monotonic
BuildTables ==
    { <<>>, <<21845>>, <<0, 65535>>, <<0, 21845, 65535>>, <<0, 0, 65535>>,
      <<0, 21845, 21845, 65535>>, <<21845, 43690>>, <<21845, 21845, 21845>>,
      <<65535, 0>>, <<65535, 0, 65535>>, <<0, 65535, 0>> }

InitBuild ==
    /\ idleProf
    /\ idleDate
    /\ idleCurve
    /\ idleCodec
    /\ idleLut
    /\ idleClut
    /\ idleTransform
    /\ idleRace
    /\ idleShare
    /\ bdTable \in BuildTables
    /\ bdPc = "start"
    /\ bdI = 0
    /\ bdIdx = 0
    /\ bdEntry = rZero

\* c.inverseTable = make([]float64, invSize); n := len(c.Table)
BuildMake ==
    /\ bdPc = "start"
    /\ bdPc' = "loop"
    /\ UNCHANGED <<bdTable, bdI, bdIdx, bdEntry>>
    /\ UNCHANGED notBuild

\* one iteration of the loop over the entries, in either loop
BuildEntry ==
    /\ bdPc = "loop"
    /\ bdIdx' = IF Len(bdTable) = 0 THEN 0
                ELSE sortSearch(bdTable, inverseTarget(bdI), 0, Len(bdTable))
    /\ bdEntry' = inverseEntry(bdTable, bdI)
    /\ bdI' = bdI + 1
    /\ bdPc' = IF bdI + 1 = invSize THEN "done" ELSE "loop"
    /\ UNCHANGED bdTable
    /\ UNCHANGED notBuild

NextBuild ==
    \/ BuildMake
    \/ BuildEntry

SpecBuild == InitBuild /\ [][NextBuild]_vars

----------------------------------------------------------------------------
(* The Lab/XYZ bridge: ToXYZ and FromXYZ on the Transforms of LUT profiles *)
(* whose PCS is Lab, with no white point tag, with one that parses and     *)
(* with one that is cut short.                                             *)

BridgeProfiles ==
    { xfProfile(PCSLabSpace, {"A2B0", "B2A0"} \cup w[1], w[2]) :
        w \in { <<{}, "plain">>, <<{"wtpt"}, "plain">>, <<{"wtpt"}, "dim">> } }

\* the device values that the A2B0 table maps to the Lab values (13, 0, 0)
\* and (42, 0, 0)
BridgeDevices ==
    { << <<27, 200>>, <<1793, 2040>>, <<1793, 2040>> >>,
      << <<143, 200>>, <<1793, 2040>>, <<1793, 2040>> >> }

InitBridge ==
    /\ idleProf
    /\ idleDate
    /\ idleCurve
    /\ idleCodec
    /\ idleLut
    /\ idleClut
    /\ idleRace
    /\ idleShare
    /\ idleBuild
    /\ xfIn \in [p : BridgeProfiles, dir : {DeviceToPCS, PCSToDevice},
                 intent : TransformIntents]
    /\ xf = initResult(nilTransform, "none")
    /\ xfArg = <<>>
    /\ xfOut = <<>>
    /\ xfOp = "new"

\* X, Y, Z := t.ToXYZ(device)
DoToXYZ(device) ==
    /\ xfOp = "made"
    /\ xf.err = ErrNil
    /\ \E r \in {ToXYZ(xf.t, device)} :
        /\ xf' = [xf EXCEPT !.t = r.t]
        /\ xfOut' = r.out
    /\ xfArg' = device
    /\ xfOp' = "ToXYZ"
    /\ UNCHANGED xfIn
    /\ UNCHANGED notTransform

NextBridge ==
    \/ DoNewTransform
    \/ \E device \in BridgeDevices : DoToXYZ(device)
    \/ \E xyz \in TransformInputs : DoFromXYZ(xyz)

SpecBridge == InitBridge /\ [][NextBridge]_vars

----------------------------------------------------------------------------
(* The date/time codec on time.Time values of any location.  A value is    *)
(* an instant, kept as its UTC calendar fields, and a location, kept as    *)
(* its offset from UTC in minutes; Year(), Month(), Day(), Hour(),         *)
(* Minute() and Second() return the calendar fields in the location.       *)

previousDay(t) ==
    IF t.day > 1 THEN [t EXCEPT !.day = t.day - 1]
    ELSE IF t.month > 1
    THEN [t EXCEPT !.month = t.month - 1, !.day = daysIn(t.month - 1, t.year)]
    ELSE [t EXCEPT !.year = t.year - 1, !.month = 12, !.day = 31]

nextDay(t) ==
    IF t.day < daysIn(t.month, t.year) THEN [t EXCEPT !.day = t.day + 1]
    ELSE IF t.month < 12 THEN [t EXCEPT !.month = t.month + 1, !.day = 1]
    ELSE [t EXCEPT !.year = t.year + 1, !.month = 1, !.day = 1]

\* the fields on the day of t at minute m of the day, m in -1440..2879
atMinute(t, m) ==
    IF m < 0 THEN [previousDay(t) EXCEPT !.hour = (m + 1440) \div 60,
                                         !.minute = (m + 1440) % 60]
    ELSE IF m >= 1440 THEN [nextDay(t) EXCEPT !.hour = (m - 1440) \div 60,
                                              !.minute = (m - 1440) % 60]
    ELSE [t EXCEPT !.hour = m \div 60, !.minute = m % 60]

\* the calendar fields that the methods of the value return
calendar(v) == atMinute(v.utc, v.utc.hour * 60 + v.utc.minute + v.zone)

\* time.Date(...).In(time.FixedZone("", zone * 60))
timeIn(utc, zone) == [utc |-> utc, zone |-> zone]

\* UTC, +01:00, -01:00, +05:30, -12:00 and +14:00
Zones == {0, 60, -60, 330, -720, 840}

Instants ==
    { mkTime(2020, 1, 2, 3, 4, 5), mkTime(1970, 1, 1, 0, 0, 0),
      mkTime(3000, 12, 31, 23, 59, 59), mkTime(2024, 2, 29, 12, 0, 0),
      mkTime(2023, 2, 28, 23, 30, 0), mkTime(2024, 3, 1, 0, 30, 0),
      mkTime(1999, 12, 31, 18, 29, 59), mkTime(2100, 3, 1, 0, 0, 1) }

InitDate ==
    /\ idleProf
    /\ idleCurve
    /\ idleCodec
    /\ idleLut
    /\ idleClut
    /\ idleTransform
    /\ idleRace
    /\ idleShare
    /\ idleBuild
    /\ dtTime \in { timeIn(utc, zone) : utc \in Instants, zone \in Zones }
    /\ dtBytes = zeros(12)
    /\ dtBack = zeroTime
    /\ dtOp = "new"

\* putDateTime(data, 0, t)
DoPutDateTime ==
    /\ dtOp = "new"
    /\ dtBytes' = putDateTime(dtBytes, 0, calendar(dtTime))
    /\ dtOp' = "put"
    /\ UNCHANGED <<dtTime, dtBack>>
    /\ UNCHANGED notDate

\* back := getDateTime(data, 0)
DoGetDateTime ==
    /\ dtOp = "put"
    /\ dtBack' = getDateTime(dtBytes, 0)
    /\ dtOp' = "get"
    /\ UNCHANGED <<dtTime, dtBytes>>
    /\ UNCHANGED notDate

NextDate ==
    \/ DoPutDateTime
    \/ DoGetDateTime

SpecDate == InitDate /\ [][NextDate]_vars

----------------------------------------------------------------------------
(* The two interpolators on their own: a CLUT whose length is the product  *)
(* of the grid sizes times the number of outputs, and input vectors with   *)
(* components below 0, inside [0, 1] and above 1; one call on each.        *)

\* the number of samples of a CLUT on the grid
clutLength(gridPoints, outChannels) == gridPoints[1] * strideOf(gridPoints, outChannels, 0)

clutOn(gridPoints, outChannels) ==
    [clut |-> rampCLUT(clutLength(gridPoints, outChannels)).v, gridPoints |-> gridPoints,
     outputChannels |-> outChannels]

InterpGrids ==
    { <<1>>, <<2>>, <<3>>, <<2, 1>>, <<1, 3>>, <<1, 1, 1>>, <<2, 2, 2>>, <<3, 3, 3>>,
      <<2, 1, 2>>, <<3, 2, 1>> }

InterpComponents == { <<-1, 2>>, rZero, <<1, 2>>, rOne, <<3, 2>> }

InterpInputs(n) == [1..n -> InterpComponents]

isUniform3(gridPoints) ==
    Len(gridPoints) = 3 /\ gridPoints[1] = gridPoints[2] /\ gridPoints[2] = gridPoints[3]

InitInterp ==
    /\ idleProf
    /\ idleCurve
    /\ idleCodec
    /\ idleClut
    /\ idleTransform
    /\ idleRace
    /\ idleShare
    /\ idleBuild
    /\ idleDate
    /\ lut \in { clutOn(g, n) : g \in InterpGrids, n \in 1..2 }
    /\ lutIn = <<>>
    /\ lutOut = <<>>
    /\ lutOp = "new"
    /\ lutData = <<>>
    /\ lutDecoded = "none"

\* out := tetrahedralInterp3D(clut, gridSize, outChannels, r, g, b), on the
\* grids for which applyCLUT calls it
DoTetrahedral(input) ==
    /\ isUniform3(lut.gridPoints)
    /\ lutOp = "new"
    /\ lutIn' = input
    /\ lutOut' = tetrahedralInterp3D(lut.clut, lut.gridPoints[1], lut.outputChannels,
                                     input[1], input[2], input[3])
    /\ lutOp' = "tetrahedral"
    /\ UNCHANGED <<lut, lutData, lutDecoded>>
    /\ UNCHANGED notLut

\* out := multilinearInterp(clut, gridPoints, outChannels, input)
DoMultilinear(input) ==
    /\ lutOp = "new"
    /\ lutIn' = input
    /\ lutOut' = multilinearInterp(lut.clut, lut.gridPoints, lut.outputChannels, input)
    /\ lutOp' = "multilinear"
    /\ UNCHANGED <<lut, lutData, lutDecoded>>
    /\ UNCHANGED notLut

NextInterp ==
    \/ \E input \in InterpInputs(3) : DoTetrahedral(input)
    \/ \E input \in InterpInputs(Len(lut.gridPoints)) : DoMultilinear(input)

SpecInterp == InitInterp /\ [][NextInterp]_vars

----------------------------------------------------------------------------
(* Invert calls on a sampled curve between which the client assigns to the *)
(* exported field Table.  The assignment touches Table alone: the field    *)
(* inverseTable is unexported and no method of Curve clears it.            *)

CacheTables == { <<0, 65535>>, <<0, 21845, 65535>>, <<0, 43690, 65535>>, <<65535, 0>> }

CacheArgs == { <<0, 1>>, <<1, 4>>, <<1, 2>>, <<3, 4>>, <<1, 1>> }

InitCache ==
    /\ idleProf
    /\ idleDate
    /\ idleBuild
    /\ idleShare
    /\ idleRace
    /\ idleTransform
    /\ idleClut
    /\ idleLut
    /\ idleCodec
    /\ curve \in { mkCurve(rZero, 0, nilSlice, slice(t)) : t \in CacheTables }
    /\ arg = rZero
    /\ result = rZero
    /\ curveOp = "new"

\* c.Table = t
DoSetTable(t) ==
    /\ curve.Table.v # t
    /\ curve' = [curve EXCEPT !.Table = slice(t)]
    /\ curveOp' = "setTable"
    /\ UNCHANGED <<arg, result>>
    /\ UNCHANGED notCurve

NextCache ==
    \/ \E y \in CacheArgs : DoInvert(y)
    \/ \E t \in CacheTables : DoSetTable(t)

SpecCache == InitCache /\ [][NextCache]_vars

----------------------------------------------------------------------------
(* Helpers of the properties *)

toInt(u) == u[1] * 65536 + u[2]

\* entry i (from 0) of the tag table of an encoded buffer
tableEntry(buf, i) ==
    [sig  |-> getUint32(buf, 132 + 12 * i),
     off  |-> toInt(getUint32(buf, 136 + 12 * i)),
     size |-> toInt(getUint32(buf, 140 + 12 * i))]

tableCount(buf) == toInt(getUint32(buf, 128))

entryData(buf, e) == SubSeq(buf, e.off + 1, e.off + e.size)

\* equality of profiles, the CheckSum field left out
sameProfile(p, q) ==
    [p EXCEPT !.CheckSum = CheckSumMissing] = [q EXCEPT !.CheckSum = CheckSumMissing]

\* the data-model invariant of Profile: every tag has at least 4 bytes
tagsWellFormed(p) == \A t \in DOMAIN p.TagData : Len(p.TagData[t]) >= 4

\* a copy of data with bytes 44..48, 64..68 and 84..100 set to zero
zeroedCopy(data) ==
    SubSeq(data, 1, 44) \o <<0, 0, 0, 0>> \o SubSeq(data, 49, 64) \o <<0, 0, 0, 0>>
    \o SubSeq(data, 69, 84) \o <<0, 0, 0, 0, 0, 0, 0, 0, 0, 0, 0, 0, 0, 0, 0, 0>>
    \o SubSeq(data, 101, Len(data))

idField(data) == SubSeq(data, 85, 100)

----------------------------------------------------------------------------
(* C1: a profile that Decode returns survives Encode followed by Decode:   *)
(* both succeed and the result equals the profile in every header field    *)
(* and in the tag map, CheckSum aside.                                     *)

roundTripDecoded(p, d) == d.err = ErrNil /\ sameProfile(d.p, p)

roundTripEncoded(p, e) == e.err = ErrNil /\ roundTripDecoded(p, Decode(e.buf))

\* C1: after a successful Decode, Encode of the returned profile succeeds
\* and Decode of its bytes returns an equal profile, CheckSum aside
C1_ProfileRoundTrip ==
    (lastOp = "decode" /\ err = ErrNil) =>
        \A order \in Orders(DOMAIN prof.TagData) :
            roundTripEncoded(prof, Encode(prof, order))

----------------------------------------------------------------------------
(* C2: decoding what Encode wrote for a profile with a version set yields  *)
(* CheckSum Valid when the version is at least 4.0.0, and Missing, with an *)
(* all-zero ID field, when it is below; never Invalid.                     *)

checkSumAfterEncode(p, buf, d) ==
    /\ d.err = ErrNil
    /\ d.p.CheckSum = IF u32Ge(p.Version, Version4_0_0)
                      THEN CheckSumValid ELSE CheckSumMissing
    /\ (u32Lt(p.Version, Version4_0_0) => isZero(idField(buf)))

\* C2, as stated: for any tag data, Decode of Encode's output succeeds with
\* CheckSum Valid for a version of at least 4.0.0 and Missing, over an
\* all-zero ID field, below it
C2_AnyTagData ==
    (lastOp = "encode" /\ err = ErrNil) => checkSumAfterEncode(prof, wire, Decode(wire))

\* the same rule for the profiles whose tags all have at least 4
\* bytes
C2_CheckSumAfterEncode ==
    (lastOp = "encode" /\ err = ErrNil /\ tagsWellFormed(prof)) =>
        checkSumAfterEncode(prof, wire, Decode(wire))

C2_Witness ==
    /\ lastOp = "encode"
    /\ err = ErrNil
    /\ tagsWellFormed(prof)
    /\ DOMAIN prof.TagData # {}
    /\ u32Ge(prof.Version, Version4_0_0)
    /\ prof.Flags # u32Zero
    /\ ~isZero(idField(wire))

----------------------------------------------------------------------------
(* C3: Decode fails exactly when the buffer is shorter than 132 bytes, the *)
(* signature is not "acsp", the tag count exceeds (len - 132) / 12, or a   *)
(* tag-table entry has size < 4, size > 0xFFFFFFFC, offset < 132 + 12 N or *)
(* offset + size > len; otherwise it succeeds and every tag of the profile *)
(* has at least 4 bytes and is a byte run of the input buffer.             *)

badEntry(data, n, i) ==
    \/ u32Lt(getUint32(data, 140 + 12 * i), <<0, 4>>)
    \/ u32Gt(getUint32(data, 140 + 12 * i), <<65535, 65532>>)
    \/ u32Lt(getUint32(data, 136 + 12 * i), fromInt(132 + 12 * n))
    \/ u32Gt(add64(getUint32(data, 136 + 12 * i), getUint32(data, 140 + 12 * i)),
             fromInt(Len(data)))

rejected(data) ==
    \/ Len(data) < 132
    \/ SubSeq(data, 37, 40) # <<97, 99, 115, 112>>
    \/ u32Gt(getUint32(data, 128), fromInt((Len(data) - 132) \div 12))
    \/ \E i \in 0..(getUint32(data, 128)[2] - 1) : badEntry(data, getUint32(data, 128)[2], i)

tagInsideInput(p, data, t) ==
    /\ Len(p.TagData[t]) >= 4
    /\ \E i \in 0..(tableCount(data) - 1) :
          /\ tableEntry(data, i).sig = t
          /\ tableEntry(data, i).off + tableEntry(data, i).size <= Len(data)
          /\ entryData(data, tableEntry(data, i)) = p.TagData[t]

\* C3: Decode returns an invalid-profile error exactly on the rejected
\* buffers, and on success every tag is a run of at least 4 input bytes
C3_DecodeErrors ==
    (lastOp = "decode") =>
        /\ (err # ErrNil) <=> rejected(decIn)
        /\ (err # ErrNil) => err \in InvalidProfileErrors
        /\ (err = ErrNil) => \A t \in DOMAIN prof.TagData : tagInsideInput(prof, decIn, t)

C3_Witness ==
    /\ lastOp = "decode"
    /\ err = ErrTagBounds
    /\ Len(decIn) >= 132

----------------------------------------------------------------------------
(* C4: Encode on a profile whose Version is zero returns the               *)
(* invalid-version error and no bytes, and leaves the profile as it was.   *)

----------------------------------------------------------------------------
(* C5: Decode sets CheckSum to Missing exactly when bytes 84..100 of its   *)
(* input are all zero; otherwise to Valid exactly when they equal the      *)
(* digest of the whole input with bytes 44..48, 64..68 and 84..100 zeroed, *)
(* and to Invalid in every other case.                                     *)

expectedCheckSum(data) ==
    IF \A i \in 85..100 : data[i] = 0 THEN CheckSumMissing
    ELSE IF idField(data) = md5Sum(zeroedCopy(data)) THEN CheckSumValid
    ELSE CheckSumInvalid

\* C5: the CheckSum of a decoded profile is Missing, Valid or Invalid by
\* the rule on bytes 84..100 of the input
C5_CheckSumRule ==
    (lastOp = "decode" /\ err = ErrNil) => prof.CheckSum = expectedCheckSum(decIn)

C5_Witness ==
    /\ lastOp = "decode"
    /\ err = ErrNil
    /\ prof.CheckSum = CheckSumValid
    /\ getUint32(decIn, 44) # u32Zero
    /\ getUint32(decIn, 64) # u32Zero

----------------------------------------------------------------------------
(* C6: for a version of at least 4.0.0 the Profile ID in Encode's output   *)
(* is the digest of the output with flags, rendering intent and ID zeroed, *)
(* so profiles that differ only in Flags and RenderingIntent get the same  *)
(* 16 ID bytes.                                                            *)

AltFlags == {u32Zero, <<0, 1>>, <<65535, 65535>>}

sameIDAs(buf, e) == e.err = ErrNil /\ idField(e.buf) = idField(buf)

\* C6: the ID that Encode writes is the digest of the output with flags,
\* intent and ID zeroed, and is the same for every Flags and RenderingIntent
C6_IDIgnoresFlagsAndIntent ==
    (lastOp = "encode" /\ err = ErrNil /\ u32Ge(prof.Version, Version4_0_0)) =>
        /\ idField(wire) = md5Sum(zeroedCopy(wire))
        /\ \A f \in AltFlags, ri \in Intents, order \in Orders(DOMAIN prof.TagData) :
              sameIDAs(wire, Encode([prof EXCEPT !.Flags = f, !.RenderingIntent = ri], order))

C6_Witness ==
    /\ lastOp = "encode"
    /\ err = ErrNil
    /\ u32Ge(prof.Version, Version4_0_0)
    /\ getUint32(wire, 44) # u32Zero
    /\ getUint32(wire, 64) # u32Zero

----------------------------------------------------------------------------
(* C7: Decode leaves the caller's buffer as it was: after the call every   *)
(* byte of the buffer holds the value it had before.                       *)

\* C7: after Decode the caller's buffer equals the buffer passed in
C7_DecodeKeepsBuffer ==
    (lastOp = "decode") => wire = decIn

----------------------------------------------------------------------------
(* C8: layout of Encode's output: tags with identical data share one       *)
(* offset and are stored once, tags with different data occupy disjoint    *)
(* byte ranges, every range starts at a multiple of 4 at or after          *)
(* 132 + 12 N and ends inside the buffer, and the buffer is as long as the *)
(* size field at offset 0 says.                                            *)

RECURSIVE sumRounded(_)
sumRounded(S) ==
    IF S = {} THEN 0
    ELSE LET x == CHOOSE y \in S : TRUE
         IN  4 * ((Len(x) + 3) \div 4) + sumRounded(S \ {x})

entryOK(p, buf, n, e) ==
    /\ e.sig \in DOMAIN p.TagData
    /\ e.size = Len(p.TagData[e.sig])
    /\ e.off % 4 = 0
    /\ e.off >= 132 + 12 * n
    /\ e.off + e.size <= Len(buf)
    /\ entryData(buf, e) = p.TagData[e.sig]

entriesApart(p, a, b) ==
    IF p.TagData[a.sig] = p.TagData[b.sig] THEN a.off = b.off
    ELSE a.off + a.size <= b.off \/ b.off + b.size <= a.off

layoutOK(p, buf, n) ==
    /\ n = Cardinality(DOMAIN p.TagData)
    /\ Len(buf) = toInt(getUint32(buf, 0))
    /\ Len(buf) = 132 + 12 * n + sumRounded({p.TagData[t] : t \in DOMAIN p.TagData})
    /\ {tableEntry(buf, i).sig : i \in 0..(n - 1)} = DOMAIN p.TagData
    /\ \A i \in 0..(n - 1) : entryOK(p, buf, n, tableEntry(buf, i))
    /\ \A i, j \in 0..(n - 1) : entriesApart(p, tableEntry(buf, i), tableEntry(buf, j))

\* C8: the output of a successful Encode has the tag layout layoutOK
C8_TagLayout ==
    (lastOp = "encode" /\ err = ErrNil) => layoutOK(prof, wire, tableCount(wire))

C8_Witness ==
    /\ lastOp = "encode"
    /\ err = ErrNil
    /\ \E t, u \in DOMAIN prof.TagData :
          /\ prof.TagData[t] # prof.TagData[u]
          /\ Len(prof.TagData[t]) % 4 # 0

----------------------------------------------------------------------------
(* C9: Encode is deterministic: whatever order the tag map is visited in,  *)
(* the bytes are the same, and the tag table is ordered by tag bytes and,  *)
(* for equal bytes, by signature.                                          *)

entryBefore(buf, a, b) ==
    \/ bytesCompare(entryData(buf, a), entryData(buf, b), 1) < 0
    \/ /\ entryData(buf, a) = entryData(buf, b)
       /\ u32Lt(a.sig, b.sig)

sameBytes(buf, e) == e.err = ErrNil /\ e.buf = buf

----------------------------------------------------------------------------
(* C10 *)

\* the curve with its parameters taken away: what is left is the table, or
\* else the gamma
withoutParams(c) == [c EXCEPT !.Params = nilSlice]

\* the result that the precedence table, then parametric, then gamma gives
byPrecedence(c, op, v) ==
    IF ~c.Table.nil THEN
        (IF op = "evaluate" THEN Evaluate(withoutParams(c), v) ELSE Invert(withoutParams(c), v).y)
    ELSE IF op = "evaluate" THEN Evaluate(c, v) ELSE Invert(c, v).y

\* C10: Evaluate and Invert pick the representation by the precedence
\* table, then parametric, then gamma: the result of a call on a curve with
\* a non-nil Table is the result of its sampled table, also when Params is
\* non-nil; and a curve with a non-nil Table or non-nil Params gives the
\* result it gives with Gamma = 0
C10_CurvePrecedence ==
    (curveOp \in {"evaluate", "invert"}) =>
        /\ result = byPrecedence(curve, curveOp, arg)
        /\ (~curve.Table.nil \/ ~curve.Params.nil) =>
               result = byPrecedence([curve EXCEPT !.Gamma = rZero], curveOp, arg)

----------------------------------------------------------------------------
(* C11 *)

\* value * 256 is a whole number that fits a uint16
isU8Fixed8(v) == v[1] >= 0 /\ 256 % v[2] = 0 /\ v[1] * (256 \div v[2]) < 65536

\* value * 65536 is a whole number that fits an int32
isS15Fixed16(v) == 65536 % v[2] = 0 /\ abs(v[1]) \div v[2] < 32768

\* the documented ways to build a Curve, with values the wire can carry and
\* a sampled curve of at least minTable entries
wireCurve(c, minTable) ==
    \/ /\ c.Params.nil /\ c.Table.nil /\ c.FuncType = 0
       /\ isU8Fixed8(c.Gamma)
    \/ /\ c.Params.nil /\ ~c.Table.nil /\ c.FuncType = 0 /\ c.Gamma = rZero
       /\ Len(c.Table.v) >= minTable
    \/ /\ ~c.Params.nil /\ c.Table.nil /\ c.Gamma = rZero
       /\ c.FuncType \in 0..4
       /\ Len(c.Params.v) = numParamsOf(c.FuncType)
       /\ \A i \in DOMAIN c.Params.v : isS15Fixed16(c.Params.v[i])

sameCurve(a, b) ==
    /\ a.Gamma = b.Gamma
    /\ a.FuncType = b.FuncType
    /\ a.Params = b.Params
    /\ a.Table = b.Table

\* the bytes just decoded are the encoding of the curve
curveRoundTrip == curveOp = "decode" /\ curveData = EncodeCurve(curve)

\* C11 as stated: DecodeCurve(c.Encode()) succeeds and equals c in Gamma,
\* FuncType, Params and Table for every identity, gamma, parametric and
\* sampled curve with wire-representable values, a sampled curve being any
\* curve with a non-empty Table.
C11_AnyNonEmptyTable ==
    (curveRoundTrip /\ wireCurve(curve, 1))
        => (decoded.err = ErrNil /\ sameCurve(decoded.c, curve))

\* C11: DecodeCurve(c.Encode()) succeeds and equals c in Gamma, FuncType,
\* Params and Table for every identity curve, gamma curve (u8Fixed8
\* gamma), parametric curve of type 0..4 (s15Fixed16 parameters) and sampled
\* curve whose Table has at least two entries.
C11_CurveRoundTrip ==
    (curveRoundTrip /\ wireCurve(curve, 2))
        => (decoded.err = ErrNil /\ sameCurve(decoded.c, curve))

\* a sampled curve of two entries, or a curve of type 4 with a negative
\* parameter, has made the round trip
C11_Witness ==
    /\ curveRoundTrip
    /\ wireCurve(curve, 2)
    /\ decoded.err = ErrNil
    /\ \/ ~curve.Table.nil /\ Len(curve.Table.v) = 2
       \/ curve.FuncType = 4

----------------------------------------------------------------------------
(* C12 *)

\* a gamma curve or a parametric curve of type 0..4
analytic(c) ==
    /\ c.Table.nil
    /\ \/ c.Params.nil /\ c.Gamma # rZero
       \/ /\ ~c.Params.nil /\ c.FuncType \in 0..4
          /\ Len(c.Params.v) = numParamsOf(c.FuncType)

\* c*d of type 3 and c*d + f of type 4
segmentBoundary(c) ==
    IF c.FuncType = 3 THEN rMul(param(c, 3), param(c, 4))
    ELSE rAdd(rMul(param(c, 3), param(c, 4)), param(c, 6))

\* on the grid the curve stays inside [0, 1] before any clamp and rises
\* strictly, and a curve of type 3 or 4 is below its boundary exactly on
\* its linear segment
risesOnGrid(c) ==
    /\ \A x \in UnitGrid :
          /\ rLe(rZero, evaluateClamped(c, x))
          /\ rLe(evaluateClamped(c, x), rOne)
    /\ \A x1, x2 \in UnitGrid :
          rLt(x1, x2) => rLt(evaluateClamped(c, x1), evaluateClamped(c, x2))
    /\ (~c.Params.nil /\ c.FuncType \in {3, 4}) =>
          \A x \in UnitGrid :
              rLt(x, param(c, 4)) <=> rLt(evaluateClamped(c, x), segmentBoundary(c))

\* |a - b| <= tol
within(a, b, tol) == rLe(rSub(a, b), tol) /\ rLe(rSub(b, a), tol)

\* what Invert returns on each side of the boundary of a curve of type 3
\* or 4, for an output y in [0, 1]
bySegment(c, y) ==
    LET e == IF c.FuncType = 3 THEN rZero ELSE param(c, 5)
        f == IF c.FuncType = 3 THEN rZero ELSE param(c, 6)
    IN  IF rLt(y, segmentBoundary(c))
        THEN (IF param(c, 3) = rZero THEN rZero ELSE rDiv(rSub(y, f), param(c, 3)))
        ELSE IF param(c, 1) = rZero \/ rSub(y, e)[1] <= 0 THEN param(c, 4)
        ELSE invPow(rSub(y, e), rDiv(rOne, param(c, 0)), param(c, 2), param(c, 1))

segmentRule ==
    (curveOp \in {"invert", "back"} /\ analytic(curve) /\ ~curve.Params.nil
        /\ curve.FuncType \in {3, 4})
        => result = bySegment(curve, clamp(IF curveOp = "invert" THEN arg
                                           ELSE Evaluate(curve, arg), rZero, rOne))

----------------------------------------------------------------------------
(* C13 *)

\* one part of a LutAToB or LutBToA applied to a vector; an absent part
\* leaves the vector as it is
stage(l, name, values) ==
    CASE name = "A" -> IF l.aCurves.nil THEN values ELSE applyCurves(l.aCurves, values)
      [] name = "CLUT" -> IF l.clut.nil THEN values ELSE applyCLUT(l, values)
      [] name = "M" -> IF l.mCurves.nil THEN values ELSE applyCurves(l.mCurves, values)
      [] name = "matrix" -> IF l.matrix.nil THEN values ELSE applyMatrix3x4(l.matrix, values)
      [] name = "B" -> IF l.bCurves.nil THEN values ELSE applyCurves(l.bCurves, values)

RECURSIVE runStages(_, _, _, _)
runStages(l, names, i, values) ==
    IF i > Len(names) THEN values
    ELSE runStages(l, names, i + 1, stage(l, names[i], values))

orderAToB == <<"A", "CLUT", "M", "matrix", "B">>
orderBToA == <<"B", "matrix", "M", "CLUT", "A">>

\* an Apply with an input of the right length has returned
applied(kind) ==
    lutOp = "apply" /\ lut.kind = kind /\ Len(lutIn) = lut.inputChannels

allParts(l) ==
    ~l.aCurves.nil /\ ~l.clut.nil /\ ~l.mCurves.nil /\ ~l.matrix.nil /\ ~l.bCurves.nil

\* C13: LutAToB.Apply returns its input passed through the present ones of
\* A-curves, CLUT, M-curves, matrix and B-curves in this order, LutBToA.Apply
\* through the same parts in the reverse order, absent parts skipped, and
\* every component of either result is clamped to [0, 1].
C13_PipelineOrder ==
    /\ applied("LutAToB") => lutOut = clampValues(runStages(lut, orderAToB, 1, lutIn))
    /\ applied("LutBToA") => lutOut = clampValues(runStages(lut, orderBToA, 1, lutIn))
    /\ (applied("LutAToB") \/ applied("LutBToA")) =>
           \A i \in DOMAIN lutOut : rLe(rZero, lutOut[i]) /\ rLe(lutOut[i], rOne)

\* a LutBToA with all five parts has been applied, and the other order
\* would have given another result
C13_Witness ==
    /\ applied("LutBToA")
    /\ allParts(lut)
    /\ Len(lutIn) = 3
    /\ lutOut # clampValues(runStages(lut, orderAToB, 1, lutIn))

----------------------------------------------------------------------------
(* C14 *)

\* C14: Apply of a Lut8, Lut16, LutAToB or LutBToA on an input whose length
\* is not InputChannels() returns OutputChannels() zeros, whatever parts
\* the LUT has.
C14_ArityMismatch ==
    (lutOp = "apply" /\ Len(lutIn) # lut.inputChannels)
        => lutOut = zeroValues(lut.outputChannels)

\* a Lut16 of 1 input and 2 outputs has been applied to 3 values
C14_Witness ==
    /\ lutOp = "apply"
    /\ lut.kind = "Lut16"
    /\ lut.inputChannels = 1 /\ lut.outputChannels = 2
    /\ Len(lutIn) = 3
    /\ lutOut = <<rZero, rZero>>

----------------------------------------------------------------------------
(* C15: the structural round trip of mAB and mBA *)

\* the number of A and of B curves that the variant and the channel counts
\* of l require
aCountOf(l) == IF l.kind = "LutBToA" THEN l.outputChannels ELSE l.inputChannels

bCountOf(l) == IF l.kind = "LutBToA" THEN l.inputChannels ELSE l.outputChannels

\* each curve list is empty or of the length its position requires, and
\* each grid size is in 1..255
wellFormedParts(l) ==
    /\ Len(l.aCurves.v) \in {0, aCountOf(l)}
    /\ Len(l.bCurves.v) \in {0, bCountOf(l)}
    /\ Len(l.mCurves.v) \in {0, 3}
    /\ \A i \in DOMAIN l.gridPoints : l.gridPoints[i] \in 1..255

RECURSIVE gridProduct(_, _)
gridProduct(gridPoints, i) ==
    IF i > Len(gridPoints) THEN 1 ELSE gridPoints[i] * gridProduct(gridPoints, i + 1)

\* a curve that DecodeCurve accepts once encoded
decodable(c) == c = nilCurve \/ c.Params.nil \/ c.FuncType \in 0..4

\* well-formed parts that the wire can carry: 1..15 channels each way;
\* parametric curves of the types 0..4; no grid, CLUT and precision at all,
\* or one grid size per input, a CLUT of the length that the grid sizes and
\* the output channels give, and the precision 1 or 2; no matrix, or one of
\* 12 s15Fixed16 values
wireLut(l) ==
    /\ wellFormedParts(l)
    /\ l.inputChannels \in 1..15
    /\ l.outputChannels \in 1..15
    /\ \A cs \in {l.aCurves, l.bCurves, l.mCurves} :
           \A i \in DOMAIN cs.v : decodable(cs.v[i])
    /\ \/ l.clut.nil /\ l.gridPoints = <<>> /\ l.clutPrecision = 0
       \/ /\ ~l.clut.nil
          /\ Len(l.gridPoints) = l.inputChannels
          /\ Len(l.clut.v) = gridProduct(l.gridPoints, 1) * l.outputChannels
          /\ l.clutPrecision \in {1, 2}
    /\ \/ l.matrix.nil
       \/ /\ Len(l.matrix.v) = 12
          /\ \A i \in 1..12 : isS15Fixed16(l.matrix.v[i])

\* d has the variant, the channel counts, the grid, the CLUT precision
\* and length and the curve counts of l, and the matrix of l, or none
\* where that is the identity
sameStructure(d, l) ==
    /\ d.kind = l.kind
    /\ d.inputChannels = l.inputChannels
    /\ d.outputChannels = l.outputChannels
    /\ d.gridPoints = l.gridPoints
    /\ d.clutPrecision = l.clutPrecision
    /\ Len(d.clut.v) = Len(l.clut.v)
    /\ Len(d.aCurves.v) = Len(l.aCurves.v)
    /\ Len(d.mCurves.v) = Len(l.mCurves.v)
    /\ Len(d.bCurves.v) = Len(l.bCurves.v)
    /\ \/ d.matrix = l.matrix
       \/ d.matrix.nil /\ l.matrix = identity3x4

\* the bytes just decoded are the encoding of the table
lutRoundTrip == lutOp = "decode" /\ lutData = encodeLutAB(lut)

\* C15 as stated: for every LutAToB or LutBToA value with well-formed parts
\* (each curve list empty or of the required length, grid sizes in 1..255)
\* DecodeLut(L.Encode()) succeeds and has the same structure.
C15_AnyWellFormedParts ==
    (lutRoundTrip /\ wellFormedParts(lut))
        => (lutDecoded.err = ErrNil /\ sameStructure(lutDecoded.lut, lut))

\* C15: for every LutAToB or LutBToA value of 1..15 input and 1..15 output
\* channels whose curve lists are empty or of the required length and hold
\* parametric curves of the types 0..4 only, whose CLUT is either absent
\* together with the grid and the precision or has one grid size in 1..255
\* per input, the length that grid and output channels give and the
\* precision 1 or 2, and whose matrix is absent or has 12 s15Fixed16
\* values, DecodeLut(L.Encode()) succeeds and yields the same variant,
\* channel counts, grid sizes, CLUT precision and length and numbers of A,
\* M and B curves, and the same matrix, or none for the identity.
C15_StructuralRoundTrip ==
    (lutRoundTrip /\ wireLut(lut))
        => (lutDecoded.err = ErrNil /\ sameStructure(lutDecoded.lut, lut))

\* an mBA table of 1 input and 3 outputs with an 8-bit CLUT, a matrix and
\* all three curve lists has made the round trip
C15_Witness ==
    /\ lutRoundTrip
    /\ wireLut(lut)
    /\ lut.kind = "LutBToA" /\ lut.inputChannels = 1 /\ lut.outputChannels = 3
    /\ lut.clutPrecision = 1 /\ lut.matrix = halfMatrix3x4
    /\ Len(lut.aCurves.v) = 3 /\ Len(lut.bCurves.v) = 1
    /\ lutDecoded.lut.matrix = halfMatrix3x4
    /\ Len(lutDecoded.lut.clut.v) = 6

----------------------------------------------------------------------------
(* C16: the CLUT size guard *)

\* the product of sizes[i], sizes[i + 1], ... exceeds m, for sizes >= 1
RECURSIVE productExceeds(_, _, _)
productExceeds(sizes, i, m) ==
    IF i > Len(sizes) THEN 1 > m
    ELSE productExceeds(sizes, i + 1, m \div sizes[i])

\* the product of the grid sizes times the output channels exceeds 2^30
tooLarge(in) == productExceeds(in.gridPoints \o <<in.outputChannels>>, 1, 1073741824)

\* that product, where it does not
exactLength(in) == gridProduct(in.gridPoints \o <<in.outputChannels>>, 1)

\* 1 to 15 dimensions of 1..maxGrid points each, and 1..15 output channels
gridsUpTo(in, maxGrid) ==
    /\ Len(in.gridPoints) \in 1..15
    /\ \A i \in DOMAIN in.gridPoints : in.gridPoints[i] \in 1..maxGrid
    /\ in.outputChannels \in 1..15

\* computeCLUTSize has returned the exact product, or 0 where that exceeds
\* 2^30
sizeRule ==
    clutOp # "new"
        => clutOut.size = (IF tooLarge(clutIn) THEN 0 ELSE exactLength(clutIn))

\* decodeCLUT, given a block that declares the grid sizes, has failed with
\* invalid tag data ahead of the allocation where the product exceeds 2^30,
\* and has otherwise decoded a CLUT of exactly that many entries if any
decodeRule ==
    clutOp = "decode"
        => IF tooLarge(clutIn)
           THEN /\ clutOut.decoded.err = errInvalidTagData
                /\ ~clutOut.decoded.allocated
           ELSE clutOut.decoded.err = ErrNil
                    => Len(clutOut.decoded.clut.v) = exactLength(clutIn)

\* C16 as stated: for every grid-size vector of 1 to 15 sizes in 1..256 and
\* every output channel count in 1..15 the size function returns the exact
\* product, or 0 where it exceeds 2^30, and decoding then fails with invalid
\* tag data before the allocation and otherwise yields a CLUT of exactly
\* that many entries.
C16_AnyGridSize == gridsUpTo(clutIn, 256) => (sizeRule /\ decodeRule)

\* C16: for every grid-size vector of 1 to 15 sizes in 1..256 and every
\* output channel count in 1..15 the size function returns the exact
\* product, or 0 where it exceeds 2^30; for sizes in 1..255, which a CLUT
\* block can declare, decoding fails with invalid tag data before the
\* allocation where the product exceeds 2^30 and otherwise yields a CLUT
\* of exactly that many entries.
C16_SizeGuard ==
    /\ gridsUpTo(clutIn, 256) => sizeRule
    /\ gridsUpTo(clutIn, 255) => decodeRule

\* a block that declares the grid 255 x 255 x 255 x 255 has been refused
\* ahead of the allocation
C16_Witness ==
    /\ clutOp = "decode"
    /\ clutIn.gridPoints = <<255, 255, 255, 255>>
    /\ clutOut.size = 0
    /\ clutOut.decoded.err = errInvalidTagData
    /\ ~clutOut.decoded.allocated

----------------------------------------------------------------------------
(* C17: the priority of the profile types *)

tagsOf(p) == DOMAIN p.TagData

\* the type that the set of tags gives, by the priority LUT, matrix/TRC,
\* gray TRC
typeByPriority(p) ==
    IF tagsOf(p) \cap LutTags # {} THEN profileTypeLut
    ELSE IF MatrixTRCTags \subseteq tagsOf(p) THEN profileTypeMatrixTRC
    ELSE IF "kTRC" \in tagsOf(p) THEN profileTypeGrayTRC
    ELSE profileTypeUnknown

\* C17: the detected type is LUT when any of the six LUT tags is present,
\* else matrix/TRC when all six matrix and TRC tags are present, else gray
\* TRC when kTRC is present, else unknown; a Transform that NewTransform
\* returns has that type, and NewTransform fails with the unsupported
\* profile type error, returning no Transform, exactly for the unknown type.
C17_DetectionPriority ==
    xfOp # "new"
        => /\ detectProfileType(xfIn.p) = typeByPriority(xfIn.p)
           /\ xf.err = ErrNil => xf.t.profileType = typeByPriority(xfIn.p)
           /\ xf.err = errUnsupportedType
                  <=> typeByPriority(xfIn.p) = profileTypeUnknown
           /\ xf.err = errUnsupportedType => xf.t = nilTransform

\* a profile with a LUT tag, all matrix and TRC tags and the gray TRC has
\* become a LUT transform
C17_Witness ==
    /\ xfOp = "made"
    /\ tagsOf(xfIn.p) \cap LutTags # {}
    /\ MatrixTRCTags \cup {"kTRC"} \subseteq tagsOf(xfIn.p)
    /\ xf.err = ErrNil
    /\ xf.t.profileType = profileTypeLut

----------------------------------------------------------------------------
(* C18: the LUT tag of a direction and an intent *)

\* AToBn or BToAn
tagOf(direction, n) ==
    IF direction = DeviceToPCS
    THEN (CASE n = 0 -> "A2B0" [] n = 1 -> "A2B1" [] OTHER -> "A2B2")
    ELSE (CASE n = 0 -> "B2A0" [] n = 1 -> "B2A1" [] OTHER -> "B2A2")

\* 0 for Perceptual, 1 for Relative and Absolute Colorimetric, 2 for
\* Saturation
indexOf(intent) ==
    CASE intent = Perceptual -> 0
      [] intent \in {RelativeColorimetric, AbsoluteColorimetric} -> 1
      [] OTHER -> 2

\* NewTransform has been given a LUT profile and one of the four intents
lutCase ==
    /\ xfOp # "new"
    /\ typeByPriority(xfIn.p) = profileTypeLut
    /\ xfIn.intent \in {Perceptual, RelativeColorimetric, Saturation,
                        AbsoluteColorimetric}

\* C18: for a LUT profile NewTransform uses the table of the tag AToBn
\* (device to PCS) or BToAn (PCS to device) of the intent, or that of n = 0
\* of the same direction where the profile has not got that tag; it fails
\* with the missing LUT tag error exactly when it has got neither, and the
\* table is never one of the other direction.
C18_LutTagSelection ==
    lutCase =>
        LET selected == tagOf(xfIn.dir, indexOf(xfIn.intent))
            fallback == tagOf(xfIn.dir, 0)
            used == IF hasTag(xfIn.p, selected) THEN selected ELSE fallback
        IN  /\ xf.err = errMissingLut
                   <=> (~hasTag(xfIn.p, selected) /\ ~hasTag(xfIn.p, fallback))
            /\ xf.err = ErrNil
                   => /\ xf.t.lut = DecodeLut(xfIn.p.TagData[used]).lut
                      /\ xf.t.lut.kind = (IF xfIn.dir = DeviceToPCS THEN "LutAToB"
                                          ELSE "LutBToA")
                      /\ \A tag \in tagsOf(xfIn.p) \cap (LutTags \ {used}) :
                             xf.t.lut # DecodeLut(xfIn.p.TagData[tag]).lut

\* a PCS-to-device transform for Saturation of a profile that has A2B2 and
\* B2A0 but not B2A2 has taken the table of B2A0
C18_Witness ==
    /\ lutCase
    /\ xfIn.dir = PCSToDevice /\ xfIn.intent = Saturation
    /\ {"A2B2", "B2A0"} \subseteq tagsOf(xfIn.p)
    /\ "B2A2" \notin tagsOf(xfIn.p)
    /\ xf.err = ErrNil
    /\ xf.t.lut = DecodeLut(xfIn.p.TagData["B2A0"]).lut

----------------------------------------------------------------------------
(* C19: the gray TRC from the PCS to the device *)

\* C19 as stated: a gray TRC transform from the PCS to the device, applied
\* to the three values [X, Y, Z] that FromXYZ passes, returns the one value
\* Invert(clamp(Y / whitePointY, 0, 1)) of the gray TRC.
C19_GrayUsesY ==
    ( /\ xfOp \in {"FromXYZ", "Apply"}
      /\ xfIn.p.PCS = PCSXYZSpace
      /\ xf.t.profileType = profileTypeGrayTRC
      /\ xf.t.direction = PCSToDevice
      /\ Len(xfArg) = 3 )
        => xfOut = <<Invert(xf.t.grayTRC,
                            clamp(rDiv(xfArg[2], xf.t.whitePoint[2]), rZero, rOne)).y>>

----------------------------------------------------------------------------
(* C20: a sampled Curve is not safe for concurrent Invert calls unless its *)
(* inverse table was built beforehand.  A call that has returned a value   *)
(* different from the one a sequential run returns started on a curve with *)
(* no cached inverse table and read an entry that was not yet filled; on a *)
(* curve whose table was built beforehand every call returns the           *)
(* sequential value.  The witness is the interleaving of the claim: a call *)
(* that saw the table as present, read unfilled entries and returned a     *)
(* different value.                                                        *)

returned(k) == calls[k].pc = "done"

differs(k) == calls[k].x # sequentialInvert(sharedCurve, calls[k].y)

C20_RaceNeedsUnbuiltTable ==
    \A k \in Callers :
        returned(k) =>
            /\ differs(k) => (~sharedCurve.prebuilt /\ calls[k].unfilled)
            /\ sharedCurve.prebuilt => (calls[k].sawTable /\ ~differs(k))

C20_Witness ==
    \E k \in Callers :
        /\ returned(k)
        /\ ~sharedCurve.prebuilt
        /\ calls[k].sawTable
        /\ calls[k].unfilled
        /\ differs(k)
        /\ \E j \in Callers \ {k} : calls[j].pc = "fill"

----------------------------------------------------------------------------
(* C21: two Transforms built by NewTransform from the same Profile share   *)
(* no mutable state.  The Curves of the one are at other places of the     *)
(* heap than the Curves of the other; under every interleaving of the      *)
(* steps of Apply, ToXYZ and FromXYZ calls on the two, a call that has     *)
(* returned has returned the value it returns when run alone; and no step  *)
(* changes the Profile or its tag bytes.                                   *)

shareDone(k) == shCalls[k].pc = "done"

disjointCurves ==
    \A i \in DOMAIN shXf[1].ids, j \in DOMAIN shXf[2].ids : shXf[1].ids[i] # shXf[2].ids[j]

C21_TransformsShareNothing ==
    /\ [](/\ disjointCurves
          /\ \A k \in Callers : shareDone(k) => shCalls[k].out = shCalls[k].alone)
    /\ [][shProfile' = shProfile]_vars

\* a call has inverted a sampled curve of its Transform while the call on
\* the other Transform was building an inverse table, and has returned
C21_Witness ==
    \E k \in Callers :
        /\ shareDone(k)
        /\ shCalls[k].overlapped
        /\ shCalls[k].got # <<>>
        /\ shCalls[k].out = shCalls[k].alone
        /\ shCalls[k].out # zeroValues(Len(shCalls[k].out))

----------------------------------------------------------------------------
(* C22: the inverse table of a sampled Curve is lazy.  Over any sequence   *)
(* of Evaluate and Invert calls on a Curve whose Table nobody changes, the *)
(* table is absent as long as no Invert has run, the first Invert builds   *)
(* it with exactly invSize = 4096 entries, and once it is present no call  *)
(* writes it or any other field of the Curve.                              *)

\* the step leaves every field but the inverse table alone
onlyInverseTable == curve' = [curve EXCEPT !.inverseTable = curve'.inverseTable]

builtNow ==
    /\ curveOp' = "invert"
    /\ onlyInverseTable
    /\ ~curve'.inverseTable.nil
    /\ Len(curve'.inverseTable.v) = invSize

lazyStep ==
    /\ curveOp' = "evaluate" => curve' = curve
    /\ ~curve.inverseTable.nil => curve' = curve
    /\ curve.inverseTable.nil /\ curve' # curve => builtNow
    /\ curveOp' = "invert" /\ curve.inverseTable.nil => curve' # curve

C22_LazyInverseTable ==
    /\ [](isSampled(curve) /\ curveOp = "new" => curve.inverseTable.nil)
    /\ [][isSampled(curve) => lazyStep]_vars

\* Invert has run on a curve of three samples and left its table
C22_Witness ==
    /\ isSampled(curve)
    /\ curveOp = "invert"
    /\ Len(curve.Table.v) = 3
    /\ ~curve.inverseTable.nil
    /\ Len(curve.inverseTable.v) = invSize
    /\ curve.inverseTable.v[invSize] = rOne
    /\ result # arg

----------------------------------------------------------------------------
(* C23: the construction rule of the inverse table.                        *)

\* the iteration that wrote the last entry, and its target
lastIndex == bdI - 1
lastTarget == inverseTarget(bdI - 1)
samples == Len(bdTable)
entryWritten == bdI > 0 /\ samples >= 2

nonDecreasing(table) == \A k \in 1..(Len(table) - 1) : table[k] <= table[k + 1]
aboveEvery(table, t) == \A k \in 1..Len(table) : table[k] < t

\* the position between the samples k-1 and k (Go's indices) for target t
between(table, k, t) ==
    rDiv(rAdd(fromI(k - 1), rat(t - table[k], table[k + 1] - table[k])),
         fromI(Len(table) - 1))

\* the least k (Go's index) with Table[k] >= t
leastAtLeast(table, t) ==
    (CHOOSE k \in 1..Len(table) :
        table[k] >= t /\ \A j \in 1..(k - 1) : table[j] < t) - 1

\* as stated, for every table of two or more samples, with k the index
\* that the binary search returned
statedRule(table, k, t, entry) ==
    IF t <= table[1] THEN entry = rZero
    ELSE IF aboveEvery(table, t) THEN entry = rOne
    ELSE /\ k \in 1..(Len(table) - 1)
         /\ IF table[k] = table[k + 1] THEN entry = rat(k - 1, Len(table) - 1)
            ELSE entry = between(table, k, t)

C23_AnyTable == entryWritten => statedRule(bdTable, bdIdx, lastTarget, bdEntry)

\* for a table that does not decrease, with k the least index whose sample
\* is at or above the target
risingRule(table, k, t, entry) ==
    /\ table[k] < t
    /\ t <= table[k + 1]
    /\ entry = between(table, k, t)
    /\ t = table[k + 1] => entry = rat(k, Len(table) - 1)

(* C23, amended: for a sampled Curve with n >= 2 samples that do not       *)
(* decrease, entry i, for target t = floor(i/4095 * 65535), is 0 when t is *)
(* at or below the first sample, 1 when t is above every sample, and       *)
(* otherwise the linearly interpolated position between the samples        *)
(* Table[k-1] < t <= Table[k], k being the least index whose sample is at  *)
(* or above t, which is the index the binary search returns.  The two      *)
(* samples are never equal; a target equal to the value of a run of equal  *)
(* samples gets the position k/(n-1) of the first sample of the run.       *)
C23_BuildRule ==
    entryWritten /\ nonDecreasing(bdTable) =>
        IF lastTarget <= bdTable[1] THEN bdIdx = 0 /\ bdEntry = rZero
        ELSE IF aboveEvery(bdTable, lastTarget) THEN bdIdx = samples /\ bdEntry = rOne
        ELSE /\ bdIdx = leastAtLeast(bdTable, lastTarget)
             /\ risingRule(bdTable, bdIdx, lastTarget, bdEntry)

\* the entry for the target 21845 in a table whose second and third sample
\* are 21845: the position of the second sample
C23_Witness ==
    /\ entryWritten
    /\ bdTable = <<0, 21845, 21845, 65535>>
    /\ lastTarget = 21845
    /\ bdIdx = 1
    /\ bdEntry = <<1, 3>>

----------------------------------------------------------------------------
(* C24: for a matrix/TRC profile whose matrix of primaries has determinant *)
(* 0, NewTransform fails with the singular-colour-matrix error exactly     *)
(* when the direction is PCS-to-device; for device-to-PCS it succeeds, the *)
(* Transform holds no inverse matrix, and Apply is the forward matrix      *)
(* applied to the linearised components.                                   *)

primaries(p) ==
    columnsMatrix(parseXYZ(p.TagData["rXYZ"]).xyz, parseXYZ(p.TagData["gXYZ"]).xyz,
                  parseXYZ(p.TagData["bXYZ"]).xyz)

product3(a, b, c) == rMul(a, rMul(b, c))

\* by the rule of Sarrus
determinant(m) ==
    rSub(rAdd(product3(m[1], m[5], m[9]),
              rAdd(product3(m[2], m[6], m[7]), product3(m[3], m[4], m[8]))),
         rAdd(product3(m[3], m[5], m[7]),
              rAdd(product3(m[2], m[4], m[9]), product3(m[1], m[6], m[8]))))

isMatrixTRC(p) == MatrixTRCTags \subseteq DOMAIN p.TagData /\ LutTags \cap DOMAIN p.TagData = {}

singularProfile(p) == isMatrixTRC(p) /\ determinant(primaries(p)) = rZero

row(m, i, v) ==
    rAdd(rMul(m[3 * i - 2], v[1]), rAdd(rMul(m[3 * i - 1], v[2]), rMul(m[3 * i], v[3])))

\* the forward matrix of the profile on the components linearised by the
\* TRC tags of the profile
forward(p, input) ==
    [i \in 1..3 |->
        row(primaries(p), i,
            <<Evaluate(DecodeCurve(p.TagData["rTRC"]).c, input[1]),
              Evaluate(DecodeCurve(p.TagData["gTRC"]).c, input[2]),
              Evaluate(DecodeCurve(p.TagData["bTRC"]).c, input[3])>>)]

singularOutcome ==
    IF xfIn.dir = PCSToDevice
    THEN xf.err = errSingularMatrix /\ xf.t = nilTransform
    ELSE /\ xf.err = ErrNil
         /\ xf.t.matrixInv.nil
         /\ ~xf.t.matrix.nil
         /\ xfOp = "Apply" /\ Len(xfArg) = 3 => xfOut = forward(xfIn.p, xfArg)

----------------------------------------------------------------------------
(* C25: both directions of the Lab/XYZ bridge replace a zero component of  *)
(* the white point by the component of D50 before scaling: on a Transform  *)
(* whose white point has a zero component, ToXYZ returns labToXYZ of the   *)
(* Lab values relative to D50 and FromXYZ hands xyzToLab relative to D50   *)
(* to the table.                                                           *)

withD50(white) == [i \in 1..3 |-> IF white[i] = rZero THEN d50WhitePoint[i] ELSE white[i]]

hasZero(white) == \E i \in 1..3 : white[i] = rZero

\* the Lab values that the table of the Transform returns for the device
labOf(t, device) == denormaliseLab(Apply(t, device).out)

bridged == xf.err = ErrNil /\ hasZero(xf.t.whitePoint)

C25_ZeroWhiteFallsBackToD50 ==
    /\ bridged /\ xfOp = "ToXYZ" /\ xfIn.dir = DeviceToPCS /\ Len(xfArg) = 3 =>
           xfOut = labToXYZ(labOf(xf.t, xfArg), withD50(xf.t.whitePoint))
    /\ bridged /\ xfOp = "FromXYZ" /\ xfIn.dir = PCSToDevice =>
           xfOut = Apply(xf.t, normaliseLab(xyzToLab(xfArg[1], xfArg[2], xfArg[3],
                                                     withD50(xf.t.whitePoint)))).out

----------------------------------------------------------------------------
(* C26: the date/time round trip in UTC.  For every CreationDate whose     *)
(* instant has a UTC year in 1970..3000, in whatever location the value is *)
(* expressed, putDateTime writes the UTC year, month, day, hour, minute    *)
(* and second as six big-endian 16-bit fields, and getDateTime of those    *)
(* twelve bytes returns the same instant.                                  *)

utcBytes(t) == rawDate(t.year, t.month, t.day, t.hour, t.minute, t.second)

C26_DateTimeRoundTripUTC ==
    /\ dtOp \in {"put", "get"} /\ dtTime.utc.year \in 1970..3000 =>
           dtBytes = utcBytes(dtTime.utc)
    /\ dtOp = "get" /\ dtTime.utc.year \in 1970..3000 => dtBack = dtTime.utc

----------------------------------------------------------------------------
(* C27: CLUT access safety.  For any input vector, components below 0 or   *)
(* above 1 included, and any grid whose CLUT has the product of the grid   *)
(* sizes times the number of outputs as its length, both interpolators     *)
(* clamp each cube-corner index to 0 <= idx <= gridPoints[i] - 2 (0 when   *)
(* gridPoints[i] = 1) and each fraction to [0, 1], and every CLUT element  *)
(* they read lies inside the CLUT.                                         *)

interpolated == lutOp \in {"tetrahedral", "multilinear"}

indexAt(d) == cornerIndex(rMul(lutIn[d], fromI(lut.gridPoints[d] - 1)), lut.gridPoints[d])

indexClamped(d) ==
    /\ 0 <= indexAt(d)
    /\ indexAt(d) <= (IF lut.gridPoints[d] = 1 THEN 0 ELSE lut.gridPoints[d] - 2)

fracClamped(d) ==
    /\ rLe(rZero, cornerFrac(lutIn[d], lut.gridPoints[d]))
    /\ rLe(cornerFrac(lutIn[d], lut.gridPoints[d]), rOne)

\* the offset of the corner whose set of raised dimensions is up
RECURSIVE cornerOffset(_, _)
cornerOffset(up, d) ==
    IF d > Len(lut.gridPoints) THEN 0
    ELSE (indexAt(d) + (IF d \in up THEN 1 ELSE 0))
             * strideOf(lut.gridPoints, lut.outputChannels, d - 1)
         + cornerOffset(up, d + 1)

\* Go's indices of the CLUT elements of all corners of the cube
cornerReads ==
    { cornerOffset(up, 1) + i : up \in SUBSET (1..Len(lut.gridPoints)),
                                i \in 0..(lut.outputChannels - 1) }

\* the elements that the call reads: tetrahedralInterp3D reads the first
\* outChannels elements for a grid size below 2 and corners of the cube
\* otherwise; multilinearInterp reads the corners that pass its test
\* idx < len(clut)
elementsRead ==
    IF lutOp = "tetrahedral" /\ lut.gridPoints[1] < 2 THEN 0..(lut.outputChannels - 1)
    ELSE IF lutOp = "tetrahedral" THEN cornerReads
    ELSE { idx \in cornerReads : idx < Len(lut.clut) }

C27_ClutAccessSafe ==
    interpolated =>
        /\ \A d \in 1..Len(lut.gridPoints) : indexClamped(d) /\ fracClamped(d)
        /\ \A idx \in elementsRead : 0 <= idx /\ idx < Len(lut.clut)
        /\ lutOut # panicked
        /\ Len(lutOut) = lut.outputChannels

\* the tetrahedral interpolation on the grid 3 x 3 x 3 at an input with a
\* component below 0 and one above 1 has read the last element of the CLUT
C27_Witness ==
    /\ lutOp = "tetrahedral"
    /\ lut.gridPoints = <<3, 3, 3>>
    /\ lutIn = << <<3, 2>>, <<3, 2>>, <<3, 2>> >>
    /\ Len(lut.clut) - 1 \in elementsRead
    /\ lutOut # panicked

----------------------------------------------------------------------------
(* C28: the number of components that Apply returns.                       *)

applyOfArity == lutOp = "apply" /\ Len(lutIn) = lut.inputChannels

(* C28: for every LUT variant and every input of InputChannels() values,   *)
(* Apply returns exactly OutputChannels() components, also when the LUT    *)
(* has no CLUT, or a CLUT of another arity, and the two numbers differ.    *)
C28_AlwaysOutputChannels == applyOfArity => Len(lutOut) = lut.outputChannels

\* the CLUT stage interpolates: Lut8 and Lut16 need a CLUT and a grid size
\* other than 0, LutAToB and LutBToA a CLUT and one grid size per input
clutApplies(l) ==
    /\ ~l.clut.nil
    /\ IF l.kind \in {"Lut8", "Lut16"} THEN l.gridPoints # 0
       ELSE Len(l.gridPoints) = l.inputChannels

\* what Apply returns: OutputChannels() components when the CLUT stage
\* interpolates, and otherwise as many components as it was given
applyOutputLength ==
    applyOfArity =>
        /\ lutOut # panicked
        /\ Len(lutOut) = IF clutApplies(lut) THEN lut.outputChannels
                         ELSE lut.inputChannels

\* a LutAToB of 1 input and 3 outputs without a CLUT has returned one value
oneOfThree ==
    /\ applyOfArity
    /\ lut.kind = "LutAToB"
    /\ lut.clut.nil
    /\ lut.inputChannels = 1
    /\ lut.outputChannels = 3
    /\ Len(lutOut) = 1

----------------------------------------------------------------------------
(* C29: coherence of the cached inverse table.                             *)

\* the curve with its current Table and no inverse table yet
uncached(c) == [c EXCEPT !.inverseTable = nilSlice]

\* the inverse table that the current Table gives
derived(c) == buildInverseTable(uncached(c)).inverseTable

(* C29: after any sequence of Invert calls and assignments to Table, the   *)
(* result of Invert(y) is the one computed from an inverse table derived   *)
(* from the Table current at the call: the inverse table the curve holds   *)
(* after the call is that table, and the result is what a curve without a  *)
(* cache returns.                                                          *)
C29_InverseTableCoherent ==
    curveOp = "invert" =>
        /\ result = Invert(uncached(curve), arg).y
        /\ curve.inverseTable = derived(curve)

----------------------------------------------------------------------------
(* C30: Encode never emits a buffer that Decode rejects: for a profile     *)
(* with a version set and any tag data, of any length, Decode of what      *)
(* Encode returned reports no error.                                       *)
C30_EncodeDecodable ==
    (lastOp = "encode" /\ err = ErrNil) => Decode(wire).err = ErrNil

\* the buffers that Decode rejects come from tags shorter than 4 bytes
rejectedForShortTag ==
    (lastOp = "encode" /\ err = ErrNil) =>
        /\ tagsWellFormed(prof) <=> Decode(wire).err = ErrNil
        /\ ~tagsWellFormed(prof) => Decode(wire).err = ErrTagTooSmall

====
